---- MODULE Spec2Model ----
(***************************************************************************)
(* Model of the incremental crawl loop of scraper.py: the fetch cycle      *)
(* (scrape_list and _process_xhr_calls), the watermark file, the capped    *)
(* history file, and the backoff / account-switch logic of                 *)
(* monitor_list_real_time, together with the --once entry point.           *)
(*                                                                         *)
(* Tweet ids are the decimal strings X assigns; the code compares them     *)
(* with int(), so the model holds them as the naturals they denote.        *)
(* Python's None (and any falsy id or limit) is the value None.            *)
(***************************************************************************)
EXTENDS Integers, Sequences, FiniteSets

\* ---- bounds of the model ----
MaxId == 3              \* tweet ids range over 1..MaxId
MaxBuffer == 2          \* responses buffered between two passes
MaxHistory == 2         \* the configured max_history
MaxScrolls == 1         \* the configured max_scrolls
MaxLimit == 2           \* the largest configured per-cycle limit
MaxFailures == 1        \* consecutive failed cycles explored by Spec
MaxBackoffId == 1       \* tweet ids surfaced in SpecBackoff
MaxBackoffBuffer == 1   \* responses buffered between two passes in SpecBackoff
MaxBackoffFailures == 6 \* consecutive failed cycles explored by SpecBackoff
ScenarioHistory == 3    \* the configured max_history in SpecScenario
ScenarioFailures == 3   \* consecutive failed cycles explored by SpecScenario
MaxAccounts == 2        \* accounts configured in SpecPool
TickSeconds == 300      \* seconds by which the clock advances in SpecPool
MaxTime == 1200         \* the clock stops advancing at this time in SpecPool
MaxDbFailures == 3      \* connection losses explored by SpecSave
MaxPassScrolls == 2     \* the largest configured max_scrolls in SpecPasses
MaxSwitchCalls == 7     \* calls of switch_to_backup_account explored by SpecSwitch

\* ---- program constants ----
None == 0
\* the empty string, which load_last_tweet_id returns for a file without text
Empty == -1
BaseInterval == 60
MaxWait == 1800
SwitchThreshold == 3
MaxConsecutiveErrors == 5
EmptyCooldown == 300
RateLimitCooldown == 600

Ids == 1..MaxId
FullTexts == {"", "text"}

VARIABLES
    \* the list: the ids of its tweets that carry no text
    textless,
    \* the primary account: whether the site currently rate-limits it, so that
    \* the wait for the first tweet on the page times out
    primary_rate_limited,
    \* configuration (arguments of monitor_list_real_time / the command line)
    mode, interval, limit, max_history, max_scrolls, backup_email,
    \* whether the caller of scrape_list passes its browser and context
    browser_param,
    \* the two files, and whether the text of tweets.json is a complete JSON
    \* document (FALSE from the moment open(TWEETS_FILE, "w") has truncated it
    \* until the document has been written out and the file closed)
    LAST_ID_FILE, TWEETS_FILE, TWEETS_FILE_complete,
    \* monitor_list_real_time
    last_tweet_id, all_tweets_ever_saved_json, consecutive_error_count,
    current_wait_time, session_available, using_backup_account,
    browser_monitor_backup, newly_scraped_tweets,
    \* scrape_list
    pc, xhr_calls_buffer, scrape_last_tweet_id, scrape_max_scrolls, i,
    seen_ids, all_new_tweets_metadata, overall_newest_id,
    \* what the latest scrape_list invocation holds: its page ("none", "open",
    \* "closed"), the Playwright runtime it started itself ("none", "started",
    \* "stopped") and its browser ("none", "param" for the caller's, "local"
    \* for one it launched, "closed" once it has closed that one)
    page, playwright_instance_local, browser_to_use,
    \* the number of KeyboardInterrupts raised in the process so far, and what
    \* the finally block of monitor_list_real_time has closed
    interrupts, closed,
    \* the database: the connection the caller holds ("none" for None, "open",
    \* "closed" once the server has dropped it), and for the latest cycle whose
    \* try block went past scrape_list the number of tweets save_tweet_to_db
    \* reported saved and what became of trigger_tweet_analysis ("not called",
    \* "ok" for a 200 response, "failed" for another response or an exception)
    db_conn, saved_to_db_count, hook,
    \* the loop "for tweet_data in newly_scraped_tweets" over save_tweet_to_db:
    \* where it stands ("idle", "call" at the entry of the function, "execute"
    \* at the INSERT, "done"), the index of the item being saved, the number of
    \* times the function has called itself again for this item, and the
    \* connection failures that have happened so far
    save_pc, save_index, retries, db_failures,
    \* extract_tweet_metadata taken alone: its argument and what it returned
    tweet_content, tweet_data,
    \* history of the run, kept for the properties: how the latest cycle ended,
    \* the ids of the valid fragments it surfaced, the ids it saw again (after an
    \* earlier pass had seen them) in a pass that also collected a new item,
    \* every id ever merged into the history, the
    \* history the latest merge started from, and the number of cycles in a row
    \* that ended in an exception on the same account
    outcome, surfaced, duplicates, ever_merged, history_before, failed_in_a_row,
    \* the number of cycles in a row that ended in PageLoadError, counted from
    \* the normal cadence (counter 0, wait = interval), and its value before the
    \* latest cycle ended
    timeouts_in_a_row, timeouts_before,
    \* what the PageLoadError handler of the latest failed cycle did about the
    \* switch to the backup account: "none" (not due), "no backup" (no
    \* credentials configured), "ok" or "failed" (switch_to_backup_account
    \* called from the primary account), "reset" (called to reinitialise the
    \* backup account)
    handler_switch,
    \* multi_account_scraper.py: the accounts of MultiAccountScraper (name,
    \* is_active, last_used, rate_limited_until, with None for unset),
    \* time.time(), where scrape_with_rotation stands, the account
    \* get_best_account returned to it (None when none), and the time of that call
    accounts, now, pool_pc, best_account, selected_at,
    \* the page of the latest TwitterAccount.scrape_tweets call ("none" when it
    \* opened none, "open", "closed")
    pool_page,
    \* switch_to_backup_account taken alone: where the call stands ("idle"
    \* between calls, "launched" once chromium.launch has returned), the browser
    \* of the latest call ("none", "open", "closed", "returned" to the caller),
    \* the number of calls made, and the number of browsers that calls have
    \* left open without returning them
    switch_pc, browser_backup, switch_calls, unreleased

\* A timeline entry as _process_xhr_calls sees it: the rest_id of
\* tweet_results.result (None when absent) and legacy.full_text ("" when
\* absent), with ids up to maxid. Every entry of one tweet has that tweet's text.
Fragments(maxid) ==
    {[rest_id |-> n, full_text |-> IF n \in textless THEN "" ELSE "text"] :
        n \in 1..maxid}
    \cup {[rest_id |-> None, full_text |-> "text"]}

settings == <<textless, mode, interval, limit, max_history, max_scrolls,
              backup_email, browser_param>>
config == <<settings, primary_rate_limited>>
files == <<LAST_ID_FILE, TWEETS_FILE, TWEETS_FILE_complete>>
monitor == <<last_tweet_id, all_tweets_ever_saved_json, consecutive_error_count,
             current_wait_time, session_available, using_backup_account,
             browser_monitor_backup, newly_scraped_tweets>>
scrape == <<pc, xhr_calls_buffer, scrape_last_tweet_id, scrape_max_scrolls, i,
            seen_ids, all_new_tweets_metadata, overall_newest_id>>
scrape_locals == <<xhr_calls_buffer, scrape_last_tweet_id, scrape_max_scrolls, i,
                   seen_ids, all_new_tweets_metadata, overall_newest_id>>
timeouts == <<timeouts_in_a_row, timeouts_before>>
ghost == <<outcome, surfaced, duplicates, ever_merged, history_before,
           failed_in_a_row, timeouts, handler_switch>>
pool == <<accounts, now, pool_pc, best_account, selected_at, pool_page>>
held == <<page, playwright_instance_local, browser_to_use>>
shutdown == <<interrupts, closed>>
db == <<db_conn, saved_to_db_count, hook>>
save == <<save_pc, save_index, retries, db_failures>>
extract == <<tweet_content, tweet_data>>
switching == <<switch_pc, browser_backup, switch_calls, unreleased>>
vars == <<config, files, monitor, scrape, held, shutdown, db, save, extract, ghost,
          pool,
          switching>>

\* ---- helpers ----
Max(a, b) == IF a >= b THEN a ELSE b
Min(a, b) == IF a <= b THEN a ELSE b

RECURSIVE Pow2(_)
Pow2(n) == IF n = 0 THEN 1 ELSE 2 * Pow2(n - 1)

Take(s, n) == SubSeq(s, 1, Min(n, Len(s)))

IdsOf(s) == {s[k].id : k \in 1..Len(s)}

\* list.sort(key=lambda x: int(x["id"]), reverse=True): a stable sort, so
\* items with equal keys keep their relative order.
RECURSIVE InsertDesc(_, _)
InsertDesc(s, x) ==
    IF s = <<>> THEN <<x>>
    ELSE IF x.id > Head(s).id THEN <<x>> \o s
    ELSE <<Head(s)>> \o InsertDesc(Tail(s), x)

RECURSIVE SortDesc(_)
SortDesc(s) ==
    IF s = <<>> THEN <<>>
    ELSE InsertDesc(SortDesc(SubSeq(s, 1, Len(s) - 1)), s[Len(s)])

\* extract_tweet_metadata: None (the empty sequence) when the id or the text
\* is missing, else the item (a one-element sequence).
extract_tweet_metadata(f) ==
    IF f.rest_id = None THEN <<>>
    ELSE IF f.full_text = "" THEN <<>>
    ELSE <<[id |-> f.rest_id, text |-> f.full_text]>>

\* Faulty variant: the filter lets the watermark's own id through.
is_new_at_or_above(tweet_id, last) == last = None \/ tweet_id >= last

\* The watermark filter of _process_xhr_calls.
is_new(tweet_id, last) == last = None \/ tweet_id > last

\* Faulty variant: no per-cycle dedup.
unseen_unchecked(tweet_id, seen) == tweet_id # None

\* The per-cycle dedup test of _process_xhr_calls.
unseen(tweet_id, seen) == tweet_id # None /\ tweet_id \notin seen

\* Faulty variant: collection stops one item late.
limit_reached_late(lim, current) == lim # None /\ Len(current) > lim

\* The limit test of _process_xhr_calls.
limit_reached(lim, current) == lim # None /\ Len(current) >= lim

\* int(last_tweet_id) raises ValueError: the watermark is neither None nor the
\* text of a number.
int_raises(last) == last = Empty

\* Faulty variant: the first id of the batch is kept, later ids are not
\* compared with it.
newest_id_first(newest, tweet_id) == IF newest = None THEN tweet_id ELSE newest

\* newest_id_this_batch after an id above the watermark was processed.
newest_id(newest, tweet_id) ==
    IF newest = None \/ tweet_id > newest THEN tweet_id ELSE newest

\* _process_xhr_calls, entry k onwards; acc carries seen_ids,
\* current_tweets_metadata_list, newly_found_tweets_this_batch and
\* newest_id_this_batch.
RECURSIVE ProcessFrom(_, _, _, _, _)
ProcessFrom(xhr_calls, k, last, lim, acc) ==
    IF k > Len(xhr_calls) THEN [acc EXCEPT !.limit_hit = FALSE]
    ELSE
      LET tweet_id == xhr_calls[k].rest_id IN
      IF unseen(tweet_id, acc.seen_ids)
      THEN
        LET a1 == [acc EXCEPT !.seen_ids = @ \cup {tweet_id}] IN
        IF int_raises(last)
        THEN \* except Exception: the rest of this response is given up
             ProcessFrom(xhr_calls, k + 1, last, lim, a1)
        ELSE IF is_new(tweet_id, last)
        THEN
          LET extracted_tweet == extract_tweet_metadata(xhr_calls[k])
              a2 == [a1 EXCEPT
                       !.batch = @ \o extracted_tweet,
                       !.current = @ \o extracted_tweet,
                       !.newest = newest_id(@, tweet_id)]
          IN IF limit_reached(lim, a2.current)
             THEN [a2 EXCEPT !.limit_hit = TRUE]
             ELSE ProcessFrom(xhr_calls, k + 1, last, lim, a2)
        ELSE ProcessFrom(xhr_calls, k + 1, last, lim, a1)
      ELSE ProcessFrom(xhr_calls, k + 1, last, lim, acc)

process_xhr_calls(xhr_calls, last, lim, seen, current) ==
    ProcessFrom(xhr_calls, 1, last, lim,
                [seen_ids |-> seen, current |-> current, batch |-> <<>>,
                 newest |-> None, limit_hit |-> FALSE])

\* The tail of scrape_list: sort descending, cut to the limit.
scrape_list_result(all_new, lim) ==
    LET sorted == SortDesc(all_new)
    IN IF lim # None /\ Len(sorted) > lim THEN Take(sorted, lim) ELSE sorted

\* Faulty variant: the candidate is taken without any test.
advance_watermark_untested(current, candidate) == candidate

\* The watermark test of the monitor loop and of --once.
advance_watermark(current, candidate) ==
    IF candidate # None /\ (current = None \/ candidate > current)
    THEN candidate ELSE current

\* Faulty variant: the batch is prepended without dropping the ids already held.
merge_history_no_dedup(history, new_tweets, maxh) ==
    LET sorted == SortDesc(new_tweets \o history)
    IN IF Len(sorted) > maxh THEN Take(sorted, maxh) ELSE sorted

\* Faulty variant: the list is cut to max_history before it is sorted.
merge_history_cut_first(history, new_tweets, maxh) ==
    LET existing_ids == IdsOf(history)
        unique_new == SelectSeq(new_tweets, LAMBDA t : t.id \notin existing_ids)
        joined == unique_new \o history
    IN SortDesc(IF Len(joined) > maxh THEN Take(joined, maxh) ELSE joined)

\* Faulty variant: the batch is prepended and the list is not sorted again.
merge_history_no_sort(history, new_tweets, maxh) ==
    LET existing_ids == IdsOf(history)
        unique_new == SelectSeq(new_tweets, LAMBDA t : t.id \notin existing_ids)
        joined == unique_new \o history
    IN IF Len(joined) > maxh THEN Take(joined, maxh) ELSE joined

\* The history merge of the monitor loop and of --once: drop the ids already
\* held, prepend, sort descending, cut to max_history.
merge_history(history, new_tweets, maxh) ==
    LET existing_ids == IdsOf(history)
        unique_new == SelectSeq(new_tweets, LAMBDA t : t.id \notin existing_ids)
        sorted == SortDesc(unique_new \o history)
    IN IF Len(sorted) > maxh THEN Take(sorted, maxh) ELSE sorted

\* Faulty variant: the first failure still waits the base interval.
backoff_wait_from_base(base, n) == Min(MaxWait, base * Pow2(n - 1))

\* current_wait_time = min(1800, base_wait_time * (2 ** consecutive_error_count))
backoff_wait(base, n) == Min(MaxWait, base * Pow2(n))

\* ---- extract_tweet_metadata: the author ----
\* None, where a string is expected.
Null == "None"

\* A user object that is not there, and one that is: the name and the
\* screen_name of its legacy (Null when the key is missing).
Absent == [present |-> FALSE, name |-> Null, screen_name |-> Null]
UserObject(n, h) == [present |-> TRUE, name |-> n, screen_name |-> h]

\* name.lower().replace(" ", "_") followed by "_user", on the names used here.
generated_username(name) ==
    CASE name = "Ann Lee" -> "ann_lee_user"
      [] name = "Bob B" -> "bob_b_user"
      [] OTHER -> "_user"

\* re.findall over json.dumps(tweet_content): the values of the given key in
\* every user object of the fragment and in its user_mentions, in the order
\* of the keys (taken here as core, user_results, user_results_data, user,
\* legacy.entities).
all_values(tc, key) ==
    LET objs == <<tc.core, tc.user_results, tc.user_results_data, tc.user,
                  tc.mention>>
    IN [k \in 1..Len(objs) |->
          IF ~objs[k].present THEN Null
          ELSE IF key = "name" THEN objs[k].name ELSE objs[k].screen_name]

\* The first match that is not empty and not "Unknown", else the value so far.
first_match(matches, sofar) ==
    LET good == {k \in 1..Len(matches) : matches[k] \notin {Null, "Unknown"}}
    IN IF good = {} THEN sofar
       ELSE matches[CHOOSE k \in good : \A j \in good : k <= j]

\* if user_data["username"] == "Unknown" and user_data["name"] != "Unknown"
needs_generated(username) == username = "Unknown"

\* user_data as extract_tweet_metadata fills it: the first user object found
\* on the chain of paths, then the searches for a missing username and name,
\* then the generated username. raised is TRUE when name.lower() is called
\* on None.
extract_user_data(tc) ==
    LET missing(v) == v \in {"Unknown", Null}
        found == IF tc.core.present THEN tc.core
                 ELSE IF tc.user_results.present THEN tc.user_results
                 ELSE IF tc.user_results_data.present THEN tc.user_results_data
                 ELSE IF tc.user.present THEN tc.user
                 ELSE UserObject("Unknown", "Unknown")
        u1 == IF missing(found.screen_name) /\ tc.user_screen_name # Null
              THEN tc.user_screen_name ELSE found.screen_name
        u2 == IF missing(u1) THEN first_match(all_values(tc, "screen_name"), u1)
              ELSE u1
        name == IF missing(found.name)
                THEN first_match(all_values(tc, "name"), found.name)
                ELSE found.name
        u3 == IF u2 = "Unknown" /\ tc.user_screen_name # Null
              THEN tc.user_screen_name ELSE u2
        generate == needs_generated(u3) /\ name # "Unknown"
    IN [raised |-> generate /\ name = Null,
        name |-> name,
        username |-> IF generate THEN generated_username(name) ELSE u3]

\* ---- initial states ----
Item(n) == [id |-> n, text |-> "text"]

RECURSIVE DescSeq(_)
DescSeq(S) ==
    IF S = {} THEN <<>>
    ELSE LET m == CHOOSE x \in S : \A y \in S : y <= x
         IN <<Item(m)>> \o DescSeq(S \ {m})

\* tweets.json as the program writes it: unique ids, descending.
StoredHistories == {DescSeq(S) : S \in SUBSET Ids}

\* The two files are read independently; last_tweet_id.txt is either absent or
\* was written before the tweets.json beside it, which then holds no higher id.
\* The run that wrote tweets.json ended after it had closed the file.
StoredTogether ==
    /\ TWEETS_FILE_complete = TRUE
    /\ LAST_ID_FILE = None \/ \A n \in IdsOf(TWEETS_FILE) : n <= LAST_ID_FILE

\* get_db_connection returned None at startup: "Monitoring will proceed
\* without DB saving".
NoDb ==
    /\ db_conn = "none"
    /\ saved_to_db_count = 0
    /\ hook = "not called"
    /\ save_pc = "idle"
    /\ save_index = 0
    /\ retries = 0
    /\ db_failures = 0

\* extract_tweet_metadata is not looked at on its own.
NoSwitch ==
    /\ switch_pc = "idle"
    /\ browser_backup = "none"
    /\ switch_calls = 0
    /\ unreleased = 0

NoFragment ==
    /\ tweet_content = [rest_id |-> None, full_text |-> ""]
    /\ tweet_data = [status |-> "pending"]

\* No MultiAccountScraper exists in a run of scraper.py.
NoPool ==
    /\ accounts = <<>>
    /\ now = 0
    /\ pool_pc = "idle"
    /\ best_account = None
    /\ selected_at = 0
    /\ pool_page = "none"

InitScrape ==
    /\ pc = "wait"
    /\ xhr_calls_buffer = <<>>
    /\ scrape_last_tweet_id = None
    /\ scrape_max_scrolls = 0
    /\ i = 0
    /\ seen_ids = {}
    /\ all_new_tweets_metadata = <<>>
    /\ overall_newest_id = None
    /\ page = "none"
    /\ playwright_instance_local = "none"
    /\ browser_to_use = "none"

\* The state when the first cycle is about to start: the watermark loaded by
\* load_last_tweet_id, the history loaded from tweets.json and cut to
\* max_history (monitor only; --once loads the history after its scrape).
InitProcess ==
    /\ last_tweet_id = LAST_ID_FILE
    /\ all_tweets_ever_saved_json =
           IF mode = "monitor" THEN Take(TWEETS_FILE, max_history) ELSE <<>>
    /\ consecutive_error_count = 0
    /\ current_wait_time = interval
    /\ using_backup_account = FALSE
    /\ browser_monitor_backup = FALSE
    /\ newly_scraped_tweets = <<>>
    /\ primary_rate_limited = FALSE
    /\ InitScrape
    /\ interrupts = 0
    /\ closed = {}
    /\ outcome = "none"
    /\ surfaced = {}
    /\ duplicates = {}
    /\ ever_merged = IdsOf(TWEETS_FILE)
    /\ history_before = all_tweets_ever_saved_json
    /\ failed_in_a_row = 0
    /\ timeouts_in_a_row = 0
    /\ timeouts_before = 0
    /\ handler_switch = "none"

Init ==
    /\ mode \in {"monitor", "once"}
    /\ interval = BaseInterval
    /\ limit \in {None} \cup 1..MaxLimit
    /\ max_history = MaxHistory
    /\ max_scrolls = MaxScrolls
    /\ backup_email = TRUE
    /\ browser_param = TRUE
    /\ session_available \in BOOLEAN
    /\ mode = "once" => backup_email /\ session_available
    /\ TWEETS_FILE \in StoredHistories
    /\ LAST_ID_FILE \in {None} \cup Ids
    /\ StoredTogether
    /\ textless \in SUBSET (Ids \ IdsOf(TWEETS_FILE))
    /\ InitProcess
    /\ NoDb
    /\ NoFragment
    /\ NoSwitch
    /\ NoPool

\* ---- scrape_list ----
\* Faulty variant: the page is closed on a return only.
release_page_on_return(raised, p) ==
    IF p = "open" /\ ~raised THEN "closed" ELSE p

\* finally: "if page: page.close()", whether the try block returned or raised.
release_page(raised, p) == IF p = "open" THEN "closed" ELSE p

\* finally: "if playwright_instance_local:" close the browser it launched, if
\* any, and stop the runtime.
release_local(pw, b) ==
    IF pw = "started"
    THEN [pw |-> "stopped", browser |-> IF b = "local" THEN "closed" ELSE b]
    ELSE [pw |-> pw, browser |-> b]

\* The finally block of scrape_list, run with the resources p, pw and b.
Finally(raised, p, pw, b) ==
    /\ page' = release_page(raised, p)
    /\ playwright_instance_local' = release_local(pw, b).pw
    /\ browser_to_use' = release_local(pw, b).browser

\* Entry of scrape_list up to the scroll loop.
EnterScrape(last, scrolls) ==
    /\ pc' = "scrape"
    /\ playwright_instance_local' = IF browser_param THEN "none" ELSE "started"
    /\ browser_to_use' = IF browser_param THEN "param" ELSE "local"
    /\ page' = "open"
    /\ xhr_calls_buffer' = <<>>
    /\ scrape_last_tweet_id' = last
    /\ scrape_max_scrolls' = scrolls
    /\ i' = 0
    /\ seen_ids' = {}
    /\ all_new_tweets_metadata' = <<>>
    /\ overall_newest_id' = last
    /\ surfaced' = {}
    /\ duplicates' = {}
    /\ newly_scraped_tweets' = <<>>
    /\ outcome' = "running"

\* page.on("response"): a timeline response is appended to the buffer.
XhrResponse(maxid, maxbuffer) ==
    /\ pc = "scrape"
    /\ Len(xhr_calls_buffer) < maxbuffer
    /\ \E f \in Fragments(maxid) :
         /\ xhr_calls_buffer' = Append(xhr_calls_buffer, f)
         /\ surfaced' = IF extract_tweet_metadata(f) # <<>>
                        THEN surfaced \cup {f.rest_id} ELSE surfaced
    /\ UNCHANGED <<switching, db, save, shutdown, held, extract, pool, config, files, monitor, pc, scrape_last_tweet_id,
                   scrape_max_scrolls, i, seen_ids, all_new_tweets_metadata,
                   overall_newest_id, outcome, duplicates, ever_merged,
                   history_before, failed_in_a_row, timeouts,
                   handler_switch>>

\* One iteration of "for i in range(max_scrolls + 1)".
\* Faulty variant: the first pass stops the paging whether or not a
\* watermark exists.
no_new_on_initial_check_any(pass, batch, last) == pass = 0 /\ batch = <<>>

\* The early stop of the paging loop: the first pass extracted nothing and the
\* caller passed a watermark.
no_new_on_initial_check(pass, batch, last) ==
    pass = 0 /\ batch = <<>> /\ last # None

ScrollPass ==
    /\ pc = "scrape"
    /\ LET r == process_xhr_calls(xhr_calls_buffer, scrape_last_tweet_id, limit,
                                  seen_ids, all_new_tweets_metadata)
           stop == \/ r.limit_hit
                   \/ no_new_on_initial_check(i, r.batch, scrape_last_tweet_id)
                   \/ i = scrape_max_scrolls
       IN /\ xhr_calls_buffer' = <<>>
          /\ seen_ids' = r.seen_ids
          /\ all_new_tweets_metadata' = r.current
          /\ overall_newest_id' = advance_watermark(overall_newest_id, r.newest)
          /\ pc' = IF stop THEN "scraped" ELSE "scrape"
          /\ i' = IF stop THEN i ELSE i + 1
          /\ duplicates' =
                 IF r.batch = <<>> THEN duplicates
                 ELSE duplicates \cup
                        {xhr_calls_buffer[k].rest_id : k \in
                           {k \in 1..Len(xhr_calls_buffer) :
                              xhr_calls_buffer[k].rest_id \in seen_ids}}
    /\ IF pc' = "scraped"
       THEN Finally(FALSE, page, playwright_instance_local, browser_to_use)
       ELSE UNCHANGED held
    /\ UNCHANGED <<switching, db, save, shutdown, extract, pool, config, files, monitor, scrape_last_tweet_id,
                   scrape_max_scrolls, outcome, surfaced, ever_merged,
                   history_before, failed_in_a_row, timeouts,
                   handler_switch>>

\* ---- monitor_list_real_time ----
\* Top of a cycle: pick the account and call scrape_list.
BeginCyclePrimary ==
    /\ mode = "monitor" /\ pc = "wait"
    /\ session_available /\ ~using_backup_account
    /\ EnterScrape(last_tweet_id, max_scrolls)
    /\ UNCHANGED <<switching, db, save, shutdown, extract, pool, config, files, last_tweet_id, all_tweets_ever_saved_json,
                   consecutive_error_count, current_wait_time, session_available,
                   using_backup_account, browser_monitor_backup, ever_merged,
                   history_before, failed_in_a_row, timeouts,
                   handler_switch>>

BeginCycleBackup ==
    /\ mode = "monitor" /\ pc = "wait"
    /\ ~(session_available /\ ~using_backup_account)
    /\ using_backup_account /\ browser_monitor_backup
    /\ EnterScrape(last_tweet_id, Max(1, max_scrolls - 1))
    /\ UNCHANGED <<switching, db, save, shutdown, extract, pool, config, files, last_tweet_id, all_tweets_ever_saved_json,
                   consecutive_error_count, current_wait_time, session_available,
                   using_backup_account, browser_monitor_backup, ever_merged,
                   history_before, failed_in_a_row, timeouts,
                   handler_switch>>

\* switch_to_backup_account: None without credentials, else the launch and
\* the login succeed or fail.
SwitchResults == IF backup_email THEN BOOLEAN ELSE {FALSE}

\* The else branch: no usable account, so try the backup; on success scrape
\* with it, else the cycle ends with nothing scraped.
BeginCycleSwitch ==
    /\ mode = "monitor" /\ pc = "wait"
    /\ ~(session_available /\ ~using_backup_account)
    /\ ~(using_backup_account /\ browser_monitor_backup)
    /\ \E ok \in SwitchResults :
         /\ browser_monitor_backup' = ok
         /\ IF ok
            THEN /\ using_backup_account' = TRUE
                 /\ EnterScrape(last_tweet_id, Max(1, max_scrolls - 1))
                 /\ failed_in_a_row' =
                        IF using_backup_account THEN failed_in_a_row ELSE 0
                 /\ UNCHANGED <<timeouts, handler_switch>>
            ELSE /\ newly_scraped_tweets' = <<>>
                 /\ outcome' = "no account"
                 /\ failed_in_a_row' = 0
                 /\ timeouts_in_a_row' = 0
                 /\ timeouts_before' = timeouts_in_a_row
                 /\ handler_switch' = "none"
                 /\ UNCHANGED <<using_backup_account, scrape, held, surfaced,
                                duplicates>>
    /\ UNCHANGED <<switching, db, save, shutdown, extract, pool, config, files, last_tweet_id, all_tweets_ever_saved_json,
                   consecutive_error_count, current_wait_time, session_available,
                   ever_merged, history_before>>

\* Faulty variant: the loop is left once max_consecutive_errors is reached.
after_failure_fatal(count) ==
    IF count >= MaxConsecutiveErrors THEN "exit" ELSE "wait"

\* Where the loop stands after an except handler has run with the counter at
\* count: reaching max_consecutive_errors only changes the message printed,
\* and the loop goes on to its sleep.
after_failure(count) == "wait"

\* Faulty variant: only the primary branch resets the counter.
request_succeeded_primary_only(on_backup, tweets) == ~on_backup

\* Whether the branch that called scrape_list resets the counter and the wait:
\* the primary branch always does, the backup branches only with items.
request_succeeded(on_backup, tweets) == ~on_backup \/ tweets # <<>>

\* Faulty variant: the hook is called whenever the cycle found tweets.
hook_due_any_new(saved, tweets) == tweets # <<>>

\* if saved_to_db_count > 0: trigger_tweet_analysis()
hook_due(saved, tweets) == saved > 0

\* "if db_conn:" save every tweet of the cycle, then call the hook if any was
\* reported saved. A save that cannot reconnect hands back None, and the
\* tweets after it are skipped. trigger_tweet_analysis catches what it raises
\* and its result is not looked at. reached is FALSE when the try block was
\* left before this point.
SaveAndNotify(tweets, reached) ==
    IF ~reached \/ tweets = <<>> \/ db_conn = "none"
    THEN /\ saved_to_db_count' = 0
         /\ hook' = "not called"
         /\ UNCHANGED db_conn
    ELSE \E saved \in 0..Len(tweets), conn \in {"open", "none"} :
           /\ conn = "none" => saved < Len(tweets)
           /\ saved_to_db_count' = saved
           /\ db_conn' = conn
           /\ hook' \in IF hook_due(saved, tweets)
                         THEN {"ok", "failed"} ELSE {"not called"}

\* What the try block does once scrape_list has returned, up to the point
\* where it ends or a file write raises ("none", "watermark", "history").
\* A write that raises leaves its file as it was.
CycleBody(fail) ==
    LET tweets == scrape_list_result(all_new_tweets_metadata, limit)
        newest_id_from_scrape == overall_newest_id
        reset == request_succeeded(using_backup_account, tweets)
        count0 == IF reset THEN 0 ELSE consecutive_error_count
        wait0 == IF reset THEN interval ELSE current_wait_time
        watermark == advance_watermark(last_tweet_id, newest_id_from_scrape)
        advanced == watermark # last_tweet_id
        merging == tweets # <<>> /\ fail # "watermark"
        merged == merge_history(all_tweets_ever_saved_json, tweets, max_history)
    IN /\ fail = "watermark" => advanced
       /\ fail = "history" => tweets # <<>>
       /\ newly_scraped_tweets' = tweets
       /\ last_tweet_id' = watermark
       /\ LAST_ID_FILE' = IF advanced /\ fail # "watermark"
                          THEN watermark ELSE LAST_ID_FILE
       /\ all_tweets_ever_saved_json' =
              IF merging THEN merged ELSE all_tweets_ever_saved_json
       /\ TWEETS_FILE' = IF merging /\ fail # "history" THEN merged ELSE TWEETS_FILE
       /\ TWEETS_FILE_complete' =
              IF merging /\ fail # "history" THEN TRUE ELSE TWEETS_FILE_complete
       /\ ever_merged' = IF merging THEN ever_merged \cup IdsOf(tweets)
                         ELSE ever_merged
       /\ history_before' = all_tweets_ever_saved_json
       /\ IF fail = "none"
          THEN /\ consecutive_error_count' = count0
               /\ current_wait_time' = wait0
               /\ outcome' = "ok"
               /\ failed_in_a_row' = 0
          ELSE \* except Exception as e_cycle
               /\ consecutive_error_count' = count0 + 1
               /\ current_wait_time' = backoff_wait(interval, count0 + 1)
               /\ outcome' = "Exception"
               /\ failed_in_a_row' = failed_in_a_row + 1
       /\ timeouts_in_a_row' = 0
       /\ timeouts_before' = timeouts_in_a_row
       /\ handler_switch' = "none"
       /\ pc' = IF fail = "none" THEN "wait" ELSE after_failure(count0 + 1)
       /\ SaveAndNotify(tweets, fail = "none")
       /\ UNCHANGED <<switching, save, shutdown, held, extract, pool, config, session_available, using_backup_account,
                      browser_monitor_backup, scrape_locals, surfaced, duplicates>>

\* A cycle that runs to the end of the try block.
CycleReturn ==
    /\ mode = "monitor" /\ pc = "scraped"
    /\ CycleBody("none")

\* A cycle in which writing one of the two files raises.
CycleUnexpectedError(budget) ==
    /\ mode = "monitor" /\ pc = "scraped"
    /\ consecutive_error_count < budget
    /\ \E fail \in {"watermark", "history"} : CycleBody(fail)

\* Faulty variant: the failed fetch still hands over the highest id it had seen, and
\* the monitor saves it.
PageLoadErrorFrame_partial ==
    /\ last_tweet_id' = advance_watermark(last_tweet_id, overall_newest_id)
    /\ LAST_ID_FILE' = last_tweet_id'
    /\ UNCHANGED <<TWEETS_FILE, TWEETS_FILE_complete, all_tweets_ever_saved_json,
                   newly_scraped_tweets, ever_merged>>

\* scrape_list raised instead of returning: what it had collected is gone with
\* its locals, and the monitor's assignments after the call are skipped.
PageLoadErrorFrame ==
    UNCHANGED <<files, last_tweet_id, all_tweets_ever_saved_json,
                newly_scraped_tweets, ever_merged>>

\* Faulty variant: the counter and the wait are reset whether or not the
\* backup account was obtained.
after_switch_always_reset(ok, n, w) == [count |-> 0, wait |-> interval]

\* The counter and the wait after switch_to_backup_account was called from the
\* primary account: reset when it returned a browser, else left as computed.
after_switch(ok, n, w) ==
    IF ok THEN [count |-> 0, wait |-> interval] ELSE [count |-> n, wait |-> w]

\* Faulty variant: the switch comes one failure late.
switch_due_late(count) == count > SwitchThreshold

\* if consecutive_error_count >= 3
switch_due(count) == count >= SwitchThreshold

\* scrape_list raises PageLoadError (navigation, marker wait or a scroll
\* failed); the "except PageLoadError" handler runs.
\* Faulty variant: a failed reinitialisation leaves the monitor on the backup
\* account.
backup_after_reset_kept(ok) == TRUE

\* using_backup_account after the handler has reinitialised the backup
\* browser: cleared when switch_to_backup_account returned no browser.
backup_after_reset(ok) == ok

CyclePageLoadError(budget) ==
    /\ mode = "monitor" /\ pc = "scrape"
    /\ consecutive_error_count < budget
    /\ LET n == consecutive_error_count + 1
           w == backoff_wait(interval, n)
       IN IF switch_due(n)
          THEN IF ~using_backup_account
               THEN IF backup_email
                    THEN \E ok \in SwitchResults :
                           /\ browser_monitor_backup' = ok
                           /\ using_backup_account' = ok
                           /\ consecutive_error_count' = after_switch(ok, n, w).count
                           /\ current_wait_time' = after_switch(ok, n, w).wait
                           /\ handler_switch' = IF ok THEN "ok" ELSE "failed"
                    ELSE /\ consecutive_error_count' = n
                         /\ current_wait_time' = w
                         /\ handler_switch' = "no backup"
                         /\ UNCHANGED <<browser_monitor_backup, using_backup_account>>
               ELSE \E ok \in SwitchResults :
                      /\ browser_monitor_backup' = ok
                      /\ using_backup_account' = backup_after_reset(ok)
                      /\ consecutive_error_count' = n
                      /\ current_wait_time' = w
                      /\ handler_switch' = "reset"
          ELSE /\ consecutive_error_count' = n
               /\ current_wait_time' = w
               /\ handler_switch' = "none"
               /\ UNCHANGED <<browser_monitor_backup, using_backup_account>>
    /\ failed_in_a_row' = IF using_backup_account' = using_backup_account
                           THEN failed_in_a_row + 1 ELSE 0
    /\ timeouts_in_a_row' =
           IF consecutive_error_count = 0 /\ current_wait_time = interval THEN 1
           ELSE IF timeouts_in_a_row > 0 THEN timeouts_in_a_row + 1
           ELSE 0
    /\ timeouts_before' = timeouts_in_a_row
    /\ pc' = after_failure(consecutive_error_count')
    /\ outcome' = "PageLoadError"
    /\ PageLoadErrorFrame
    /\ Finally(TRUE, page, playwright_instance_local, browser_to_use)
    /\ UNCHANGED <<switching, db, save, shutdown, extract, pool, config, session_available, scrape_locals, surfaced,
                   duplicates, history_before>>

\* ---- the --once entry point ----
OnceBegin ==
    /\ mode = "once" /\ pc = "wait"
    /\ last_tweet_id' = LAST_ID_FILE
    /\ EnterScrape(LAST_ID_FILE, max_scrolls)
    /\ UNCHANGED <<switching, db, save, shutdown, extract, pool, config, files, all_tweets_ever_saved_json,
                   consecutive_error_count, current_wait_time, session_available,
                   using_backup_account, browser_monitor_backup, ever_merged,
                   history_before, failed_in_a_row, timeouts,
                   handler_switch>>

\* scrape_list returned: save the watermark, load tweets.json, merge, write.
OnceReturn ==
    /\ mode = "once" /\ pc = "scraped"
    /\ LET tweets == scrape_list_result(all_new_tweets_metadata, limit)
           watermark == advance_watermark(last_tweet_id, overall_newest_id)
           merged == merge_history(TWEETS_FILE, tweets, max_history)
       IN /\ newly_scraped_tweets' = tweets
          /\ LAST_ID_FILE' = watermark
          /\ all_tweets_ever_saved_json' = merged
          /\ TWEETS_FILE' = merged
          /\ TWEETS_FILE_complete' = TRUE
          /\ ever_merged' = ever_merged \cup IdsOf(tweets)
          /\ history_before' = TWEETS_FILE
          /\ SaveAndNotify(tweets, TRUE)
    /\ pc' = "exit"
    /\ outcome' = "ok"
    /\ UNCHANGED <<switching, save, shutdown, held, extract, pool, config, last_tweet_id, consecutive_error_count,
                   current_wait_time, session_available, using_backup_account,
                   browser_monitor_backup, scrape_locals, surfaced, duplicates,
                   failed_in_a_row, timeouts,
                   handler_switch>>

\* scrape_list raised: --once has no handler, the process ends.
OnceFail ==
    /\ mode = "once" /\ pc = "scrape"
    /\ pc' = "exit"
    /\ outcome' = "PageLoadError"
    /\ Finally(TRUE, page, playwright_instance_local, browser_to_use)
    /\ UNCHANGED <<switching, db, save, shutdown, extract, pool, config, files, monitor, scrape_locals, surfaced, duplicates,
                   ever_merged, history_before, failed_in_a_row, timeouts,
                   handler_switch>>

Next ==
    \/ XhrResponse(MaxId, MaxBuffer)
    \/ ScrollPass
    \/ BeginCyclePrimary
    \/ BeginCycleBackup
    \/ BeginCycleSwitch
    \/ CycleReturn
    \/ CycleUnexpectedError(MaxFailures)
    \/ CyclePageLoadError(MaxFailures)
    \/ OnceBegin
    \/ OnceReturn
    \/ OnceFail

Spec == Init /\ [][Next]_vars

\* The monitor alone, from empty files and with few tweets on the list, over
\* longer runs of failed cycles.
InitBackoff ==
    /\ mode = "monitor"
    /\ interval = BaseInterval
    /\ limit = None
    /\ max_history = MaxHistory
    /\ max_scrolls = MaxScrolls
    /\ backup_email \in BOOLEAN
    /\ browser_param = TRUE
    /\ session_available \in BOOLEAN
    /\ LAST_ID_FILE = None
    /\ TWEETS_FILE = <<>>
    /\ TWEETS_FILE_complete = TRUE
    /\ textless \in SUBSET (1..MaxBackoffId)
    /\ InitProcess
    /\ NoDb
    /\ NoFragment
    /\ NoSwitch
    /\ NoPool

NextBackoff ==
    \/ XhrResponse(MaxBackoffId, MaxBackoffBuffer)
    \/ ScrollPass
    \/ BeginCyclePrimary
    \/ BeginCycleBackup
    \/ BeginCycleSwitch
    \/ CycleReturn
    \/ CycleUnexpectedError(MaxBackoffFailures)
    \/ CyclePageLoadError(MaxBackoffFailures)

SpecBackoff == InitBackoff /\ [][NextBackoff]_vars

\* The sleep at the end of a cycle lasts at most the computed wait, so the
\* top of the loop is reached again.
SpecBackoffLive ==
    SpecBackoff
      /\ WF_vars(BeginCyclePrimary \/ BeginCycleBackup \/ BeginCycleSwitch)

\* The monitor started with no watermark and no history, a usable primary
\* session and backup credentials, every tweet of the list carrying text.
InitScenario ==
    /\ mode = "monitor"
    /\ interval = BaseInterval
    /\ limit = None
    /\ max_history = ScenarioHistory
    /\ max_scrolls = MaxScrolls
    /\ backup_email = TRUE
    /\ browser_param = TRUE
    /\ session_available = TRUE
    /\ LAST_ID_FILE = None
    /\ TWEETS_FILE = <<>>
    /\ TWEETS_FILE_complete = TRUE
    /\ textless = {}
    /\ InitProcess
    /\ NoDb
    /\ NoFragment
    /\ NoSwitch
    /\ NoPool

NextScenario ==
    \/ XhrResponse(MaxId, MaxBuffer)
    \/ ScrollPass
    \/ BeginCyclePrimary
    \/ BeginCycleBackup
    \/ CycleReturn
    \/ CyclePageLoadError(ScenarioFailures)

SpecScenario == InitScenario /\ [][NextScenario]_vars

\* The monitor of SpecBackoff started with a database connection.
InitHook ==
    /\ mode = "monitor"
    /\ interval = BaseInterval
    /\ limit = None
    /\ max_history = MaxHistory
    /\ max_scrolls = MaxScrolls
    /\ backup_email \in BOOLEAN
    /\ browser_param = TRUE
    /\ session_available \in BOOLEAN
    /\ LAST_ID_FILE = None
    /\ TWEETS_FILE = <<>>
    /\ TWEETS_FILE_complete = TRUE
    /\ textless \in SUBSET (1..MaxBackoffId)
    /\ InitProcess
    /\ db_conn = "open"
    /\ saved_to_db_count = 0
    /\ hook = "not called"
    /\ save_pc = "idle"
    /\ save_index = 0
    /\ retries = 0
    /\ db_failures = 0
    /\ NoFragment
    /\ NoSwitch
    /\ NoPool

SpecHook == InitHook /\ [][NextBackoff]_vars

\* ---- the monitor and KeyboardInterrupt ----
\* What the finally block of monitor_list_real_time closes: the database
\* connection, the primary browser, the Playwright runtime, and the backup
\* browser when there is one.
closed_by_finally(backup) ==
    {"db_conn", "browser_monitor", "pw_runtime"}
        \cup IF backup THEN {"browser_monitor_backup"} ELSE {}

\* KeyboardInterrupt is raised in the sleep, in the statements of a cycle or
\* inside scrape_list (whose finally closes its page): no handler of the loop
\* catches it, "except KeyboardInterrupt" and the finally block run.
KeyboardInterrupt ==
    /\ mode = "monitor" /\ pc \in {"wait", "scrape", "scraped"}
    /\ interrupts = 0
    /\ interrupts' = 1
    /\ closed' = closed_by_finally(browser_monitor_backup)
    /\ pc' = "stopped"
    /\ outcome' = "KeyboardInterrupt"
    /\ Finally(TRUE, page, playwright_instance_local, browser_to_use)
    /\ UNCHANGED <<switching, db, save, extract, pool, config, files, monitor, scrape_locals, surfaced,
                   duplicates, ever_merged, history_before, failed_in_a_row,
                   timeouts, handler_switch>>

\* KeyboardInterrupt is raised while the no-session branch of a cycle is in
\* switch_to_backup_account and auto_login_backup_account waits for a selector
\* or clicks inside one of its "try: ... except: continue" blocks: the bare
\* except catches it, the login goes on to its next attempt and succeeds or
\* fails, and the cycle proceeds as BeginCycleSwitch does.
InterruptInBackupLogin ==
    /\ mode = "monitor" /\ pc = "wait"
    /\ ~(session_available /\ ~using_backup_account)
    /\ ~(using_backup_account /\ browser_monitor_backup)
    /\ backup_email
    /\ interrupts = 0
    /\ interrupts' = 1
    /\ \E ok \in BOOLEAN :
         /\ browser_monitor_backup' = ok
         /\ IF ok
            THEN /\ using_backup_account' = TRUE
                 /\ EnterScrape(last_tweet_id, Max(1, max_scrolls - 1))
                 /\ failed_in_a_row' =
                        IF using_backup_account THEN failed_in_a_row ELSE 0
                 /\ UNCHANGED <<timeouts, handler_switch>>
            ELSE /\ newly_scraped_tweets' = <<>>
                 /\ outcome' = "no account"
                 /\ failed_in_a_row' = 0
                 /\ timeouts_in_a_row' = 0
                 /\ timeouts_before' = timeouts_in_a_row
                 /\ handler_switch' = "none"
                 /\ UNCHANGED <<using_backup_account, scrape, held, surfaced,
                                duplicates>>
    /\ UNCHANGED <<switching, db, save, closed, extract, pool, config, files, last_tweet_id,
                   all_tweets_ever_saved_json, consecutive_error_count,
                   current_wait_time, session_available, ever_merged,
                   history_before>>

\* The monitor of SpecBackoff with an operator who interrupts it once.
NextInterrupt ==
    \/ XhrResponse(MaxBackoffId, MaxBackoffBuffer)
    \/ ScrollPass
    \/ BeginCyclePrimary
    \/ BeginCycleBackup
    \/ BeginCycleSwitch
    \/ CycleReturn
    \/ CycleUnexpectedError(MaxFailures)
    \/ CyclePageLoadError(MaxFailures)
    \/ KeyboardInterrupt
    \/ InterruptInBackupLogin

SpecInterrupt == InitBackoff /\ [][NextInterrupt]_vars

\* ---- save_tweet_to_db ----
\* "Try again with new connection (but limit recursion)": the call
\* "return save_tweet_to_db(tweet_data, conn)" is made whenever the reconnect
\* succeeded; nothing counts or limits it.
retry_allowed(n) == TRUE

\* The loop goes on to the next item, or ends after the last.
NextItem(success, conn) ==
    /\ db_conn' = conn
    /\ saved_to_db_count' = saved_to_db_count + IF success THEN 1 ELSE 0
    /\ retries' = 0
    /\ IF save_index < Len(newly_scraped_tweets)
       THEN save_pc' = "call" /\ save_index' = save_index + 1
       ELSE save_pc' = "done" /\ save_index' = save_index

\* Entry of save_tweet_to_db: no connection returns (False, conn); a closed
\* one is replaced by get_db_connection(), or (False, None) is returned.
SaveEntry ==
    /\ save_pc = "call"
    /\ \/ /\ db_conn = "none"
          /\ NextItem(FALSE, "none")
          /\ UNCHANGED db_failures
       \/ /\ db_conn = "open"
          /\ save_pc' = "execute"
          /\ UNCHANGED <<db_conn, saved_to_db_count, save_index, retries,
                         db_failures>>
       \/ /\ db_conn = "closed"
          /\ \/ /\ db_conn' = "open"
                /\ save_pc' = "execute"
                /\ UNCHANGED <<saved_to_db_count, save_index, retries,
                               db_failures>>
             \/ /\ NextItem(FALSE, "none")
                /\ UNCHANGED db_failures
    /\ UNCHANGED <<switching, hook, shutdown, held, extract, pool, config, files, monitor, scrape,
                   ghost>>

\* cur.execute and conn.commit succeed: return (True, conn).
SaveExecute ==
    /\ save_pc = "execute"
    /\ NextItem(TRUE, db_conn)
    /\ UNCHANGED <<switching, db_failures, hook, shutdown, held, extract, pool, config, files,
                   monitor, scrape, ghost>>

\* They raise and the connection is still usable: rollback, (False, conn).
SaveOtherError ==
    /\ save_pc = "execute"
    /\ NextItem(FALSE, db_conn)
    /\ UNCHANGED <<switching, db_failures, hook, shutdown, held, extract, pool, config, files,
                   monitor, scrape, ghost>>

\* They raise because the server closed the connection: reconnect, and if
\* that succeeded call save_tweet_to_db again, else return (False, None).
SaveConnectionLost(maxfailures) ==
    /\ save_pc = "execute"
    /\ db_failures < maxfailures
    /\ db_failures' = db_failures + 1
    /\ \/ /\ retry_allowed(retries)
          /\ db_conn' = "open"
          /\ save_pc' = "call"
          /\ retries' = retries + 1
          /\ UNCHANGED <<saved_to_db_count, save_index>>
       \/ NextItem(FALSE, IF retry_allowed(retries) THEN "none" ELSE "open")
    /\ UNCHANGED <<switching, hook, shutdown, held, extract, pool, config, files, monitor, scrape,
                   ghost>>

\* A cycle has found tweets and written the history; it now saves them with
\* the connection it holds, which the server may have closed since.
InitSave ==
    /\ mode = "monitor"
    /\ interval = BaseInterval
    /\ limit = None
    /\ max_history = MaxHistory
    /\ max_scrolls = MaxScrolls
    /\ backup_email = TRUE
    /\ browser_param = TRUE
    /\ session_available = TRUE
    /\ \E S \in (SUBSET Ids) \ {{}} :
          /\ TWEETS_FILE = DescSeq(S)
          /\ LAST_ID_FILE = CHOOSE n \in S : \A m \in S : m <= n
    /\ TWEETS_FILE_complete = TRUE
    /\ textless = {}
    /\ primary_rate_limited = FALSE
    /\ last_tweet_id = LAST_ID_FILE
    /\ all_tweets_ever_saved_json = TWEETS_FILE
    /\ consecutive_error_count = 0
    /\ current_wait_time = interval
    /\ using_backup_account = FALSE
    /\ browser_monitor_backup = FALSE
    /\ \E k \in 1..Len(TWEETS_FILE) :
          newly_scraped_tweets = Take(TWEETS_FILE, k)
    /\ InitScrape
    /\ interrupts = 0
    /\ closed = {}
    /\ outcome = "running"
    /\ surfaced = IdsOf(newly_scraped_tweets)
    /\ duplicates = {}
    /\ ever_merged = IdsOf(TWEETS_FILE)
    /\ history_before = <<>>
    /\ failed_in_a_row = 0
    /\ timeouts_in_a_row = 0
    /\ timeouts_before = 0
    /\ handler_switch = "none"
    /\ db_conn \in {"open", "closed"}
    /\ saved_to_db_count = 0
    /\ hook = "not called"
    /\ save_pc = "call"
    /\ save_index = 1
    /\ retries = 0
    /\ db_failures = 0
    /\ NoFragment
    /\ NoSwitch
    /\ NoPool

NextSave ==
    \/ SaveEntry
    \/ SaveExecute
    \/ SaveOtherError
    \/ SaveConnectionLost(MaxDbFailures)

SpecSave == InitSave /\ [][NextSave]_vars

\* ---- extract_tweet_metadata called on its own ----
\* The user objects a fragment can carry on the path whose handle is h.
UserObjects(h) ==
    {Absent} \cup {UserObject(n, s) : n \in {Null, "Ann Lee"},
                                      s \in {Null, h, "Unknown"}}

\* A fragment with or without id, text, each of the user paths, the legacy
\* keys user_id_str and user_screen_name, and a mentioned user.
TweetContents ==
    [rest_id : {None, 1},
     full_text : FullTexts,
     core : UserObjects("ann"),
     user_results : UserObjects("ann_r"),
     user_results_data : {Absent, UserObject("Ann Lee", "ann_d")},
     user : {Absent, UserObject("Ann Lee", "ann_u"), UserObject("Ann Lee", Null)},
     user_id_str : {Null, "7"},
     user_screen_name : {Null, "ann_l", "Unknown"},
     mention : {Absent, UserObject("Bob B", "bob")}]

InitExtract ==
    /\ mode = "call"
    /\ interval = BaseInterval
    /\ limit = None
    /\ max_history = MaxHistory
    /\ max_scrolls = MaxScrolls
    /\ backup_email = FALSE
    /\ browser_param = TRUE
    /\ session_available = TRUE
    /\ TWEETS_FILE = <<>>
    /\ LAST_ID_FILE = None
    /\ StoredTogether
    /\ textless = {}
    /\ InitProcess
    /\ NoDb
    /\ tweet_content \in TweetContents
    /\ tweet_data = [status |-> "pending"]
    /\ NoSwitch
    /\ NoPool

\* extract_tweet_metadata(tweet_content) returns None, returns tweet_data, or
\* raises.
Extract ==
    /\ tweet_data.status = "pending"
    /\ tweet_content \in TweetContents
    /\ LET user_data == extract_user_data(tweet_content)
       IN tweet_data' =
            IF extract_tweet_metadata(tweet_content) = <<>>
            THEN [status |-> "None"]
            ELSE IF user_data.raised
            THEN [status |-> "raised"]
            ELSE [status |-> "item",
                  id |-> tweet_content.rest_id,
                  text |-> tweet_content.full_text,
                  name |-> user_data.name,
                  username |-> user_data.username]
    /\ UNCHANGED <<switching, tweet_content, db, save, shutdown, held, pool, config, files,
                   monitor, scrape, ghost>>

NextExtract == Extract

SpecExtract == InitExtract /\ [][NextExtract]_vars

\* ---- scrape_list called on its own ----
\* A call that gets as far as the scroll loop: with browser_param it uses the
\* caller's browser, without it launches its own and finds a stored session.
CallScrapeList ==
    /\ mode = "call" /\ pc = "wait" /\ outcome = "none"
    /\ browser_param \/ session_available
    /\ EnterScrape(last_tweet_id, max_scrolls)
    /\ UNCHANGED <<switching, db, save, shutdown, extract, pool, config, files, last_tweet_id, all_tweets_ever_saved_json,
                   consecutive_error_count, current_wait_time, session_available,
                   using_backup_account, browser_monitor_backup, ever_merged,
                   history_before, failed_in_a_row, timeouts, handler_switch>>

\* Without browser_param and without a stored session: "No session found for
\* scraping", return [], None before any page is opened.
CallNoSession ==
    /\ mode = "call" /\ pc = "wait" /\ outcome = "none"
    /\ ~browser_param /\ ~session_available
    /\ pc' = "scraped"
    /\ outcome' = "no session"
    /\ Finally(FALSE, "none", "started", "local")
    /\ UNCHANGED <<switching, db, save, shutdown, extract, pool, config, files, monitor, scrape_locals, surfaced,
                   duplicates, ever_merged, history_before, failed_in_a_row,
                   timeouts, handler_switch>>

\* An exception before the page exists (the launch, new_context or new_page
\* failed): PageLoadError is raised with page still None.
CallFailsToStart ==
    /\ mode = "call" /\ pc = "wait" /\ outcome = "none"
    /\ browser_param \/ session_available
    /\ pc' = "raised"
    /\ outcome' = "PageLoadError"
    /\ \E b \in IF browser_param THEN {"param"} ELSE {"none", "local"} :
          Finally(TRUE, "none", IF browser_param THEN "none" ELSE "started", b)
    /\ UNCHANGED <<switching, db, save, shutdown, extract, pool, config, files, monitor, scrape_locals, surfaced,
                   duplicates, ever_merged, history_before, failed_in_a_row,
                   timeouts, handler_switch>>

\* A timeout or any other exception once the page exists.
CallRaise ==
    /\ mode = "call" /\ pc = "scrape"
    /\ pc' = "raised"
    /\ outcome' = "PageLoadError"
    /\ Finally(TRUE, page, playwright_instance_local, browser_to_use)
    /\ UNCHANGED <<switching, db, save, shutdown, extract, pool, config, files, monitor, scrape_locals, surfaced,
                   duplicates, ever_merged, history_before, failed_in_a_row,
                   timeouts, handler_switch>>

\* One call of scrape_list, with or without the caller's browser, with or
\* without a stored session, with any watermark.
InitCall ==
    /\ mode = "call"
    /\ interval = BaseInterval
    /\ limit \in {None} \cup 1..MaxLimit
    /\ max_history = MaxHistory
    /\ max_scrolls = MaxScrolls
    /\ backup_email = FALSE
    /\ browser_param \in BOOLEAN
    /\ session_available \in BOOLEAN
    /\ TWEETS_FILE = <<>>
    /\ LAST_ID_FILE \in {None} \cup Ids
    /\ StoredTogether
    /\ textless \in SUBSET Ids
    /\ InitProcess
    /\ NoDb
    /\ NoFragment
    /\ NoSwitch
    /\ NoPool

NextCall ==
    \/ CallScrapeList
    \/ CallNoSession
    \/ CallFailsToStart
    \/ XhrResponse(MaxId, MaxBuffer)
    \/ ScrollPass
    \/ CallRaise

SpecCall == InitCall /\ [][NextCall]_vars

\* ---- the write of tweets.json, operation by operation ----
\* OnceReturn up to open(TWEETS_FILE, "w"): the watermark is saved, the stored
\* history is loaded and merged, and opening the file for writing truncates it.
OnceOpenHistory ==
    /\ mode = "once" /\ pc = "scraped"
    /\ LET tweets == scrape_list_result(all_new_tweets_metadata, limit)
           watermark == advance_watermark(last_tweet_id, overall_newest_id)
           merged == merge_history(TWEETS_FILE, tweets, max_history)
       IN /\ newly_scraped_tweets' = tweets
          /\ LAST_ID_FILE' = watermark
          /\ all_tweets_ever_saved_json' = merged
          /\ TWEETS_FILE' = <<>>
          /\ TWEETS_FILE_complete' = FALSE
          /\ ever_merged' = ever_merged \cup IdsOf(tweets)
          /\ history_before' = TWEETS_FILE
    /\ pc' = "write"
    /\ UNCHANGED <<switching, db, save, shutdown, held, extract, pool, config, last_tweet_id, consecutive_error_count,
                   current_wait_time, session_available, using_backup_account,
                   browser_monitor_backup, scrape_locals, outcome, surfaced,
                   duplicates, failed_in_a_row, timeouts, handler_switch>>

\* json.dump writes the document piece by piece into the file's buffer; the
\* buffer is flushed whenever it fills, so the text on disk grows up to the
\* end of some further item.
JsonDumpFlush ==
    /\ pc = "write"
    /\ \E n \in (Len(TWEETS_FILE) + 1)..Len(all_tweets_ever_saved_json) :
          TWEETS_FILE' = Take(all_tweets_ever_saved_json, n)
    /\ UNCHANGED <<switching, db, save, shutdown, held, extract, pool, config, LAST_ID_FILE, TWEETS_FILE_complete, monitor,
                   scrape, ghost>>

\* The with block ends: the rest of the document is flushed and the file is
\* closed; --once prints its summary and the process ends.
OnceCloseHistory ==
    /\ pc = "write"
    /\ TWEETS_FILE' = all_tweets_ever_saved_json
    /\ TWEETS_FILE_complete' = TRUE
    /\ pc' = "exit"
    /\ outcome' = "ok"
    /\ SaveAndNotify(newly_scraped_tweets, TRUE)
    /\ UNCHANGED <<switching, save, shutdown, held, extract, pool, config, LAST_ID_FILE, monitor,
                   scrape_locals, surfaced,
                   duplicates, ever_merged, history_before, failed_in_a_row,
                   timeouts, handler_switch>>

\* The process is killed (or the machine stops) while the file is open for
\* writing: tweets.json keeps the text that had reached the disk.
Interrupt ==
    /\ pc = "write"
    /\ pc' = "killed"
    /\ outcome' = "killed"
    /\ UNCHANGED <<switching, db, save, shutdown, held, extract, pool, config, files, monitor, scrape_locals, surfaced,
                   duplicates, ever_merged, history_before, failed_in_a_row,
                   timeouts, handler_switch>>

\* A --once run over any stored files, with the write of tweets.json taken
\* apart into the operations on the file.
InitWrite ==
    /\ Init
    /\ mode = "once"

NextWrite ==
    \/ OnceBegin
    \/ XhrResponse(MaxId, MaxBuffer)
    \/ ScrollPass
    \/ OnceFail
    \/ OnceOpenHistory
    \/ JsonDumpFlush
    \/ OnceCloseHistory
    \/ Interrupt

SpecWrite == InitWrite /\ [][NextWrite]_vars

\* ---- multi_account_scraper.py: MultiAccountScraper ----
\* TwitterAccount.__init__, after initialize() has succeeded or failed.
Account(n, active) ==
    [name |-> n, is_active |-> active, last_used |-> None,
     rate_limited_until |-> None]

\* Faulty variant: the cooldown is not looked at.
is_available_ignoring_cooldown(acc, t) == acc.is_active

\* The filter of get_best_account: active, and no cooldown set or
\* time.time() >= rate_limited_until.
is_available(acc, t) ==
    /\ acc.is_active
    /\ (acc.rate_limited_until = None \/ t >= acc.rate_limited_until)

\* min(available, key=lambda x: x.last_used or 0): the first of the accounts
\* with the smallest key.
RECURSIVE min_last_used(_, _)
min_last_used(available, best) ==
    IF available = <<>> THEN best
    ELSE min_last_used(Tail(available),
                       IF Head(available).last_used < best.last_used
                       THEN Head(available) ELSE best)

\* MultiAccountScraper.get_best_account: the name of the account returned,
\* None when it returns None.
get_best_account(accts, t) ==
    LET available == SelectSeq(accts, LAMBDA acc : is_available(acc, t))
    IN IF available = <<>> THEN None
       ELSE min_last_used(Tail(available), Head(available)).name

\* MultiAccountScraper after setup_accounts and initialize_accounts.
InitPool ==
    /\ mode = "monitor"
    /\ interval = BaseInterval
    /\ limit = None
    /\ max_history = MaxHistory
    /\ max_scrolls = MaxScrolls
    /\ backup_email = TRUE
    /\ browser_param = TRUE
    /\ session_available = TRUE
    /\ LAST_ID_FILE = None
    /\ TWEETS_FILE = <<>>
    /\ TWEETS_FILE_complete = TRUE
    /\ textless = {}
    /\ InitProcess
    /\ NoDb
    /\ NoFragment
    /\ NoSwitch
    /\ \E active \in [1..MaxAccounts -> BOOLEAN] :
          accounts = [n \in 1..MaxAccounts |-> Account(n, active[n])]
    /\ now = TickSeconds
    /\ pool_pc = "idle"
    /\ best_account = None
    /\ selected_at = 0
    /\ pool_page = "none"

\* Time passes.
Tick ==
    /\ accounts # <<>>
    /\ now < MaxTime
    /\ now' = now + TickSeconds
    /\ UNCHANGED <<switching, db, save, shutdown, extract, held, config, files, monitor, scrape, ghost, accounts, pool_pc,
                   best_account, selected_at, pool_page>>

\* scrape_with_rotation, first line: account = self.get_best_account().
\* Without an account it returns at once.
SelectAccount ==
    /\ accounts # <<>>
    /\ pool_pc = "idle"
    /\ best_account' = get_best_account(accounts, now)
    /\ selected_at' = now
    /\ pool_pc' = IF best_account' = None THEN "idle" ELSE "selected"
    /\ UNCHANGED <<switching, db, save, shutdown, extract, held, config, files, monitor, scrape, ghost, accounts, now,
                   pool_page>>

\* The page of scrape_tweets when it returns: closed at the end of the try
\* block; after an exception, never opened (new_page raised) or left as it
\* was, open (goto, wait_for_selector or the scrolling raised).
page_after(result) ==
    IF result \in {"tweets", "empty"} THEN {"closed"} ELSE {"none", "open"}

\* TwitterAccount.scrape_tweets on the selected account: it returns tweets,
\* returns none, raises with a rate-limit message, or raises otherwise.
ScrapeTweets ==
    /\ pool_pc = "selected"
    /\ \E result \in {"tweets", "empty", "rate limit", "error"} :
         LET acc == accounts[best_account]
         IN IF ~is_available(acc, now)
            THEN UNCHANGED <<accounts, pool_page>>
            ELSE /\ pool_page' \in page_after(result)
                 /\ accounts' = [accounts EXCEPT ![best_account] =
                     CASE result = "tweets" -> [acc EXCEPT !.last_used = now]
                       [] result = "empty" ->
                            [acc EXCEPT !.last_used = now,
                                        !.rate_limited_until = now + EmptyCooldown]
                       [] result = "rate limit" ->
                            [acc EXCEPT !.rate_limited_until =
                                            now + RateLimitCooldown]
                       [] OTHER -> acc]
    /\ pool_pc' = "idle"
    /\ UNCHANGED <<switching, db, save, shutdown, extract, held, config, files, monitor, scrape, ghost, now, best_account,
                   selected_at>>

\* test_rate_limit_handling: every account's rate limit is removed.
ClearRateLimits ==
    /\ accounts # <<>>
    /\ pool_pc = "idle"
    /\ \E n \in 1..Len(accounts) : accounts[n].rate_limited_until # None
    /\ accounts' = [n \in 1..Len(accounts) |->
                       [accounts[n] EXCEPT !.rate_limited_until = None]]
    /\ UNCHANGED <<switching, db, save, shutdown, extract, held, config, files, monitor, scrape, ghost, now, pool_pc,
                   best_account, selected_at, pool_page>>

NextPool ==
    \/ Tick
    \/ SelectAccount
    \/ ScrapeTweets
    \/ ClearRateLimits

SpecPool == InitPool /\ [][NextPool]_vars

\* ---- properties ----
NoDup(s) == \A a, b \in 1..Len(s) : a # b => s[a].id # s[b].id
StrictDesc(s) == \A a \in 1..(Len(s) - 1) : s[a].id > s[a + 1].id

\* The n highest of a set of ids.
RECURSIVE TopIds(_, _)
TopIds(S, n) ==
    IF n = 0 \/ S = {} THEN {}
    ELSE LET m == CHOOSE x \in S : \A y \in S : y <= x
         IN {m} \cup TopIds(S \ {m}, n - 1)

\* The watermark in force once a cycle has completed.
NewWatermark == IF mode = "monitor" THEN last_tweet_id ELSE LAST_ID_FILE

\* C1: whatever a step does (a cycle with new items in any order, an empty
\* cycle, a PageLoadError, an unexpected exception), the watermark in memory
\* and the watermark on disk are afterwards at least what they were before
\* (None counts as lowest).
C1_WatermarkNeverDecreases ==
    [][last_tweet_id' >= last_tweet_id /\ LAST_ID_FILE' >= LAST_ID_FILE]_vars

\* A cycle on an established watermark delivered an out-of-order batch and
\* advanced the watermark in memory and on disk.
C1_Witness ==
    /\ outcome = "ok"
    /\ scrape_last_tweet_id # None
    /\ Len(all_new_tweets_metadata) >= 2
    /\ all_new_tweets_metadata[1].id < all_new_tweets_metadata[2].id
    /\ NewWatermark > scrape_last_tweet_id
    /\ LAST_ID_FILE = NewWatermark

\* C2: after every merge the history holds no id twice, and it is longer than
\* the history the merge started from by at most the number of batch ids that
\* history did not hold.
C2_HistoryDedup ==
    /\ NoDup(all_tweets_ever_saved_json)
    /\ NoDup(TWEETS_FILE)
    /\ outcome \in {"ok", "Exception"} =>
         Len(all_tweets_ever_saved_json) <=
            Len(history_before)
              + Cardinality(IdsOf(newly_scraped_tweets) \ IdsOf(history_before))

\* A merge whose batch held an id the history already had, next to a new one.
C2_Witness ==
    /\ outcome = "ok"
    /\ IdsOf(newly_scraped_tweets) \cap IdsOf(history_before) # {}
    /\ IdsOf(newly_scraped_tweets) \ IdsOf(history_before) # {}
    /\ TWEETS_FILE = all_tweets_ever_saved_json

\* C3: once a merge has run, the history holds at most max_history items and
\* its ids are exactly the max_history highest of all ids ever merged into it.
C3_HistoryCap ==
    (mode = "monitor" \/ outcome = "ok") =>
        /\ Len(all_tweets_ever_saved_json) <= max_history
        /\ IdsOf(all_tweets_ever_saved_json) = TopIds(ever_merged, max_history)

\* A merge that overflowed the cap: more ids were merged than fit, and an
\* item of the batch itself fell off the end.
C3_Witness ==
    /\ outcome = "ok"
    /\ Cardinality(ever_merged) > max_history
    /\ \E k \in 1..Len(newly_scraped_tweets) :
          newly_scraped_tweets[k].id \notin IdsOf(all_tweets_ever_saved_json)
    /\ \E k \in 1..Len(newly_scraped_tweets) :
          newly_scraped_tweets[k].id \in IdsOf(all_tweets_ever_saved_json)

\* C4: the history, in memory and on disk, is always in strictly descending
\* order of id.
C4_HistorySorted ==
    /\ StrictDesc(all_tweets_ever_saved_json)
    /\ StrictDesc(TWEETS_FILE)

\* A merge that had to place a new item below an item already held.
C4_Witness ==
    /\ outcome = "ok"
    /\ \E a \in 1..Len(all_tweets_ever_saved_json) :
       \E b \in 1..Len(all_tweets_ever_saved_json) :
          /\ a < b
          /\ all_tweets_ever_saved_json[a].id \in IdsOf(history_before)
          /\ all_tweets_ever_saved_json[b].id \notin IdsOf(history_before)
          /\ all_tweets_ever_saved_json[b].id \in IdsOf(newly_scraped_tweets)

\* C5: a step that ends a cycle in PageLoadError changes neither the
\* watermark nor the history, in memory or on disk.
C5_FailedCycleFrame ==
    [][outcome' = "PageLoadError" /\ outcome = "running" =>
         UNCHANGED <<last_tweet_id, LAST_ID_FILE, all_tweets_ever_saved_json,
                     TWEETS_FILE>>]_vars

\* A cycle that failed after a pass had extracted an item above the watermark.
C5_Witness ==
    /\ mode = "monitor"
    /\ outcome = "PageLoadError"
    /\ i > 0
    /\ all_new_tweets_metadata # <<>>
    /\ overall_newest_id > last_tweet_id
    /\ LAST_ID_FILE = last_tweet_id

\* C6: every item scrape_list has collected or returned has an id above the
\* watermark the cycle was started with.
C6_OnlyAboveWatermark ==
    \A t \in IdsOf(all_new_tweets_metadata) \cup IdsOf(newly_scraped_tweets) :
        scrape_last_tweet_id = None \/ t > scrape_last_tweet_id

\* A completed cycle that returned items and had seen a fragment at or below
\* its watermark.
C6_Witness ==
    /\ outcome = "ok"
    /\ scrape_last_tweet_id # None
    /\ newly_scraped_tweets # <<>>
    /\ \E n \in seen_ids : n <= scrape_last_tweet_id

\* A step that is one pass of the scroll loop.
PassStep == pc = "scrape" /\ (i' # i \/ pc' = "scraped")

C8_NothingLeftBelowWatermark ==
    outcome = "ok" =>
       \A n \in surfaced :
          (/\ scrape_last_tweet_id = None \/ n > scrape_last_tweet_id
           /\ n <= NewWatermark)
          => n \in IdsOf(newly_scraped_tweets)

\* The position in the buffer of the first fragment with id n.
FirstAt(buffer, n) ==
    CHOOSE k \in 1..Len(buffer) :
       /\ buffer[k].rest_id = n
       /\ \A j \in 1..(k - 1) : buffer[j].rest_id # n

\* C9: with a limit set, scrape_list never holds or returns more than limit
\* items; the scroll loop is left as soon as limit items are collected; and the
\* pass that collects the last of them processes no fragment after it.
C9_LimitStopsCollection ==
    [][/\ limit # None =>
            /\ Len(all_new_tweets_metadata') <= limit
            /\ Len(newly_scraped_tweets') <= limit
       /\ (pc' = "scrape" /\ limit # None) =>
            Len(all_new_tweets_metadata') < limit
       /\ (/\ PassStep
           /\ limit # None
           /\ Len(all_new_tweets_metadata') >= limit) =>
            LET last_item ==
                   all_new_tweets_metadata'[Len(all_new_tweets_metadata')].id
                p == FirstAt(xhr_calls_buffer, last_item)
            IN /\ pc' = "scraped"
               /\ i' = i
               /\ seen_ids' = seen_ids \cup
                     ({xhr_calls_buffer[k].rest_id : k \in 1..p} \ {None})]_vars

\* A cycle that reached its limit before its last pass and left a surfaced
\* fragment unprocessed.
C9_Witness ==
    /\ outcome = "ok"
    /\ limit # None
    /\ Len(newly_scraped_tweets) = limit
    /\ i < scrape_max_scrolls
    /\ \E n \in surfaced : n \notin seen_ids

\* C10: after failed_in_a_row >= 1 cycles in a row that ended in PageLoadError
\* or in an unexpected exception, with no account switch between them, the
\* wait is min(1800, interval * 2^failed_in_a_row), and it never exceeds 1800.
C10_BackoffAfterNFailures ==
    /\ current_wait_time <= Max(MaxWait, interval)
    /\ (outcome \in {"PageLoadError", "Exception"} /\ failed_in_a_row >= 1) =>
          current_wait_time = Min(MaxWait, interval * Pow2(failed_in_a_row))

\* C11 as stated: from the normal cadence with interval 60, the waits computed
\* by three cycles in a row that end in PageLoadError are 60, 120 and 240, and
\* a cycle with new items right after them resets the wait to 60.
C11_TimeoutWaitsAsStated ==
    /\ (outcome = "PageLoadError" /\ timeouts_in_a_row = 1) =>
           current_wait_time = 60
    /\ (outcome = "PageLoadError" /\ timeouts_in_a_row = 2) =>
           current_wait_time = 120
    /\ (outcome = "PageLoadError" /\ timeouts_in_a_row = 3) =>
           current_wait_time = 240
    /\ (outcome = "ok" /\ newly_scraped_tweets # <<>> /\ timeouts_before = 3) =>
           current_wait_time = 60

\* C11, amended: from the normal cadence with interval 60, the waits computed
\* by three cycles in a row that end in PageLoadError are 120, 240 and then
\* 480, or 60 when the third failure switched the monitor from the primary to
\* the backup account; a cycle with new items right after them resets the
\* counter to 0 and the wait to 60.
C11_TimeoutWaits ==
    /\ (outcome = "PageLoadError" /\ timeouts_in_a_row = 1) =>
           /\ current_wait_time = 120
           /\ consecutive_error_count = 1
    /\ (outcome = "PageLoadError" /\ timeouts_in_a_row = 2) =>
           /\ current_wait_time = 240
           /\ consecutive_error_count = 2
    /\ (outcome = "PageLoadError" /\ timeouts_in_a_row = 3) =>
           \/ current_wait_time = 480 /\ consecutive_error_count = 3
           \/ /\ current_wait_time = 60
              /\ consecutive_error_count = 0
              /\ using_backup_account /\ browser_monitor_backup
    /\ (outcome = "ok" /\ newly_scraped_tweets # <<>> /\ timeouts_before = 3) =>
           /\ current_wait_time = 60
           /\ consecutive_error_count = 0

\* Three cycles in a row failed on the primary account, no switch happened,
\* and the cycle after them delivered an item.
C11_Witness ==
    /\ outcome = "ok"
    /\ newly_scraped_tweets # <<>>
    /\ timeouts_before = 3
    /\ ~using_backup_account
    /\ current_wait_time = 60

\* C12: a monitor cycle that ran to its end and returned at least one item
\* leaves the counter at 0 and the wait at the base interval, on the primary
\* and on the backup account, whatever the counter was before.
C12_SuccessResets ==
    (mode = "monitor" /\ outcome = "ok" /\ newly_scraped_tweets # <<>>) =>
        /\ consecutive_error_count = 0
        /\ current_wait_time = interval

\* A cycle on the backup account that returned an item right after a cycle
\* that had failed and raised the wait.
C12_Witness ==
    /\ outcome = "ok"
    /\ newly_scraped_tweets # <<>>
    /\ using_backup_account
    /\ timeouts_before >= 1
    /\ current_wait_time = interval

\* A step in which a cycle ends in PageLoadError.
PageLoadErrorStep == outcome = "running" /\ outcome' = "PageLoadError"

C14_FailedSwitchKeepsBackoff ==
    [][/\ (PageLoadErrorStep /\ handler_switch' \in {"failed", "no backup"}) =>
              /\ ~using_backup_account /\ ~using_backup_account'
              /\ consecutive_error_count' = consecutive_error_count + 1
              /\ consecutive_error_count' >= SwitchThreshold
              /\ current_wait_time' =
                     Min(MaxWait, interval * Pow2(consecutive_error_count'))
              /\ current_wait_time' > interval
       /\ (/\ pc = "wait" /\ pc' = "scrape"
           /\ handler_switch \in {"failed", "no backup"}) =>
              /\ ~using_backup_account'
              /\ UNCHANGED <<consecutive_error_count, current_wait_time>>]_vars

\* The third failure in a row on the primary account called
\* switch_to_backup_account, which returned nothing; the next cycle is running
\* on the primary account under the backoff wait.
C14_Witness ==
    /\ pc = "scrape" /\ outcome = "running"
    /\ handler_switch = "failed"
    /\ timeouts_in_a_row = 3
    /\ ~using_backup_account
    /\ consecutive_error_count = 3
    /\ current_wait_time = 480

\* C15 as stated, with ids 1, 2, 3 for 101, 102, 103: from an empty watermark
\* and history, once the primary account has delivered ids 1 and 2 (watermark
\* 2, history 2, 1) and its next cycle has ended in PageLoadError, the cycle
\* after that runs on the backup account; when it returns id 3 the watermark
\* is 3 and the history 3, 2, 1.
C15_ScenarioAsStated ==
    /\ (/\ outcome = "running"
        /\ timeouts_in_a_row = 1
        /\ failed_in_a_row = 1
        /\ last_tweet_id = 2
        /\ IdsOf(all_tweets_ever_saved_json) = {1, 2}) => using_backup_account
    /\ (/\ outcome = "ok"
        /\ timeouts_before = 1
        /\ IdsOf(history_before) = {1, 2}
        /\ IdsOf(newly_scraped_tweets) = {3}) =>
           /\ using_backup_account
           /\ last_tweet_id = 3
           /\ LAST_ID_FILE = 3
           /\ all_tweets_ever_saved_json = <<Item(3), Item(2), Item(1)>>

\* C16 as stated: a monitor cycle that runs to its end without an exception
\* and returns no item increments the counter, and raises the wait above the
\* base interval by less than a PageLoadError at that counter would.
C16_EmptyCycleIsWeakFailure ==
    [][(/\ mode = "monitor"
        /\ outcome = "running" /\ outcome' = "ok"
        /\ newly_scraped_tweets' = <<>>) =>
           /\ consecutive_error_count' = consecutive_error_count + 1
           /\ current_wait_time' > interval
           /\ current_wait_time' <
                 backoff_wait(interval, consecutive_error_count')]_vars

\* The account's cooldown has not elapsed at time t.
InCooldown(acc, t) ==
    acc.rate_limited_until # None /\ acc.rate_limited_until > t

\* What C17 says of the value r that get_best_account returns for the
\* accounts accts at time t.
BestAccountContract(accts, t, r) ==
    /\ r = None <=>
          \A n \in 1..Len(accts) : accts[n].is_active => InCooldown(accts[n], t)
    /\ r # None =>
          /\ r \in 1..Len(accts)
          /\ accts[r].is_active
          /\ ~InCooldown(accts[r], t)
          /\ \A n \in 1..Len(accts) :
                (accts[n].is_active /\ ~InCooldown(accts[n], t)) =>
                   /\ accts[r].last_used <= accts[n].last_used
                   /\ accts[n].last_used = None => accts[r].last_used = None

\* C17: get_best_account returns an active account that is not in cooldown
\* and has the oldest last_used among those (never used first); it returns
\* None exactly when every active account is in cooldown; the account that
\* scrape_with_rotation holds is that value; and when an account's cooldown
\* is cleared or elapses, get_best_account returns an account.
C17_BestAccount ==
    /\ [](accounts # <<>> =>
            /\ BestAccountContract(accounts, now,
                                   get_best_account(accounts, now))
            /\ (pool_pc = "selected" /\ selected_at = now) =>
                  best_account = get_best_account(accounts, now))
    /\ [][(\E n \in 1..Len(accounts) :
              /\ accounts[n].is_active
              /\ InCooldown(accounts[n], now)
              /\ ~InCooldown(accounts'[n], now')) =>
             get_best_account(accounts', now') # None]_vars

\* scrape_with_rotation has just been given the backup account, whose
\* cooldown has elapsed, although the primary account was used longer ago:
\* the primary account is active and still in cooldown.
C17_Witness ==
    /\ pool_pc = "selected" /\ selected_at = now
    /\ best_account = 2
    /\ accounts[1].is_active
    /\ InCooldown(accounts[1], now)
    /\ accounts[1].last_used < accounts[2].last_used
    /\ accounts[2].rate_limited_until # None

C19_NoIdentityExits ==
    (mode = "monitor" /\ ~session_available /\ ~backup_email) =>
        outcome = "none"

\* C20 as stated: when the process is stopped during the write of the
\* history file, tweets.json holds a complete document whose history is
\* either the one it held before the write or the one being written.
C20_WriteAllOrNothing ==
    pc = "killed" =>
        /\ TWEETS_FILE_complete
        /\ TWEETS_FILE \in {history_before, all_tweets_ever_saved_json}

\* C21 as stated: after a cycle that extracted items and was cut short by a
\* failed write before they reached the history file, the stored watermark
\* lies below every such item, so that a later fetch delivers it again.
C21_CutShortKeepsWatermark ==
    outcome = "Exception" =>
        \A n \in IdsOf(newly_scraped_tweets) \ IdsOf(TWEETS_FILE) :
            LAST_ID_FILE = None \/ LAST_ID_FILE < n

\* C22: whenever control is outside scrape_list (it has returned, returned
\* early for a missing session, or raised), the page the invocation opened is
\* closed, and so are the browser and the Playwright runtime it launched itself.
C22_ReleasedOnEveryExit ==
    pc # "scrape" =>
        /\ page # "open"
        /\ playwright_instance_local # "started"
        /\ browser_to_use # "local"

\* An invocation that launched its own browser, opened a page and then raised
\* PageLoadError.
C22_Witness ==
    /\ pc = "raised" /\ outcome = "PageLoadError"
    /\ page = "closed"
    /\ playwright_instance_local = "stopped"
    /\ browser_to_use = "closed"

\* C23 as stated: once an operator interrupt has been raised, whether between
\* cycles, in the sleep or during a cycle, the loop has stopped, no later
\* cycle runs, and the shutdown path has closed the database connection, the
\* primary browser, the Playwright runtime and the backup browser if any.
C23_InterruptStopsMonitor ==
    interrupts > 0 =>
        /\ pc = "stopped"
        /\ closed_by_finally(browser_monitor_backup) \subseteq closed

\* C24 as stated: while an item is being saved, save_tweet_to_db has made at
\* most one reconnect-and-retry attempt for it, whatever connection failures
\* have occurred.
C24_AtMostOneRetry == retries <= 1

\* C25: in the step that runs the rest of a cycle after scrape_list has
\* returned, trigger_tweet_analysis is called exactly when at least one of
\* the cycle's tweets was reported saved to the database; and when the hook
\* fails, the cycle still ends as a completed one: the counter and the wait
\* are not raised, and the watermark and the history are those the cycle's
\* own tweets give.
C25_HookWhenSaved ==
    [][(mode = "monitor" /\ pc = "scraped") =>
          /\ (hook' # "not called") <=> (saved_to_db_count' > 0)
          /\ saved_to_db_count' <= Len(newly_scraped_tweets')
          /\ hook' = "failed" =>
                /\ outcome' = "ok"
                /\ consecutive_error_count' \in {0, consecutive_error_count}
                /\ current_wait_time' \in {interval, current_wait_time}
                /\ last_tweet_id' =
                       advance_watermark(last_tweet_id, overall_newest_id)
                /\ LAST_ID_FILE' = last_tweet_id'
                /\ all_tweets_ever_saved_json' =
                       merge_history(all_tweets_ever_saved_json,
                                     newly_scraped_tweets', max_history)
                /\ TWEETS_FILE' = all_tweets_ever_saved_json']_vars

\* A cycle saved a tweet to the database and the hook then failed.
C25_Witness ==
    /\ outcome = "ok" /\ hook = "failed"
    /\ saved_to_db_count > 0
    /\ newly_scraped_tweets # <<>>

\* C26 as stated: extract_tweet_metadata returns None for every fragment that
\* lacks the id or the text, and for every fragment that has both it returns
\* an item with that id and that text, whatever else is missing.
C26_NoneOrItem ==
    tweet_data.status # "pending" =>
        IF tweet_content.rest_id = None \/ tweet_content.full_text = ""
        THEN tweet_data.status = "None"
        ELSE /\ tweet_data.status = "item"
             /\ tweet_data.id = tweet_content.rest_id
             /\ tweet_data.text = tweet_content.full_text

\* C30 as stated: in a returned item, a handle found on the primary path is
\* the item's username (later steps do not run), and whenever a display name
\* was resolved the username is a handle that was found or the one generated
\* from the name, never None and never "Unknown".
C30_HandleResolved ==
    tweet_data.status = "item" =>
        /\ (tweet_content.core.present
              /\ tweet_content.core.screen_name \notin {Null, "Unknown"})
             => tweet_data.username = tweet_content.core.screen_name
        /\ tweet_data.name \notin {Null, "Unknown"}
             => tweet_data.username \notin {Null, "Unknown"}

\* The monitor started on an empty state directory with any configured
\* max_scrolls from 0 to MaxPassScrolls, with and without a limit.
InitPasses ==
    /\ mode = "monitor"
    /\ interval = BaseInterval
    /\ limit \in {None, 1}
    /\ max_history = MaxHistory
    /\ max_scrolls \in 0..MaxPassScrolls
    /\ backup_email = TRUE
    /\ browser_param = TRUE
    /\ session_available \in BOOLEAN
    /\ LAST_ID_FILE = None
    /\ TWEETS_FILE = <<>>
    /\ TWEETS_FILE_complete = TRUE
    /\ textless \in SUBSET (1..MaxBackoffId)
    /\ InitProcess
    /\ NoDb
    /\ NoFragment
    /\ NoSwitch
    /\ NoPool

NextPasses ==
    \/ XhrResponse(MaxBackoffId, MaxBackoffBuffer)
    \/ ScrollPass
    \/ BeginCyclePrimary
    \/ BeginCycleBackup
    \/ BeginCycleSwitch
    \/ CycleReturn
    \/ CyclePageLoadError(MaxFailures)

SpecPasses == InitPasses /\ [][NextPasses]_vars

\* C27 as stated: a first pass that extracts nothing ends the paging when a
\* watermark was passed; when none was passed, every configured pass is
\* performed, so the pass after an empty first pass never ends the paging
\* before the configured number is reached.
C27_AllPassesWithoutWatermark ==
    [][/\ (PassStep /\ i = 0 /\ all_new_tweets_metadata' = <<>>
             /\ scrape_last_tweet_id # None)
            => pc' = "scraped"
       /\ (PassStep /\ i = 1 /\ all_new_tweets_metadata = <<>>
             /\ scrape_last_tweet_id = None /\ pc' = "scraped")
            => i = scrape_max_scrolls]_vars

\* C27 amended: a first pass that extracts nothing ends the paging exactly
\* when a watermark was passed or no further pass is configured; a later
\* pass ends the paging only when the configured number of passes is reached
\* or the limit is reached.
C27_EarlyStopNeedsWatermark ==
    [][/\ (PassStep /\ i = 0 /\ all_new_tweets_metadata' = <<>>)
            => (pc' = "scraped" <=>
                  (scrape_last_tweet_id # None \/ scrape_max_scrolls = 0))
       /\ (PassStep /\ i >= 1 /\ pc' = "scraped")
            => \/ i = scrape_max_scrolls
               \/ limit_reached(limit, all_new_tweets_metadata')]_vars

\* The paging went on after an empty first pass without a watermark and ended
\* with every configured pass performed.
C27_Witness ==
    /\ pc = "scraped"
    /\ scrape_last_tweet_id = None
    /\ scrape_max_scrolls = MaxPassScrolls
    /\ i = scrape_max_scrolls
    /\ all_new_tweets_metadata = <<>>

\* C28 as stated: a fetch that returned performed, after the initial
\* retrieval, at most the configured max_scrolls additional passes, whatever
\* the configured value and whichever account made the fetch.
C28_AtMostConfiguredPasses == pc = "scraped" => i <= max_scrolls

\* The site starts to rate-limit the primary account.
PrimaryRateLimited ==
    /\ mode = "monitor"
    /\ ~primary_rate_limited
    /\ primary_rate_limited' = TRUE
    /\ UNCHANGED <<switching, settings, files, monitor, scrape, held, shutdown, db, save,
                   extract, ghost, pool>>

\* The rate limit on the primary account is over.
PrimaryRecovers ==
    /\ mode = "monitor"
    /\ primary_rate_limited
    /\ primary_rate_limited' = FALSE
    /\ UNCHANGED <<switching, settings, files, monitor, scrape, held, shutdown, db, save,
                   extract, ghost, pool>>

\* The account of the running cycle gets its pages: it is the backup account,
\* or the primary account while it is not rate-limited.
account_answers == using_backup_account \/ ~primary_rate_limited

\* The monitor started on an empty state directory with a usable primary
\* session and backup credentials.
InitRecover ==
    /\ mode = "monitor"
    /\ interval = BaseInterval
    /\ limit = None
    /\ max_history = MaxHistory
    /\ max_scrolls = MaxScrolls
    /\ backup_email = TRUE
    /\ browser_param = TRUE
    /\ session_available = TRUE
    /\ LAST_ID_FILE = None
    /\ TWEETS_FILE = <<>>
    /\ TWEETS_FILE_complete = TRUE
    /\ textless \in SUBSET (1..MaxBackoffId)
    /\ InitProcess
    /\ NoDb
    /\ NoFragment
    /\ NoSwitch
    /\ NoPool

RecoverXhrResponse ==
    account_answers /\ XhrResponse(MaxBackoffId, MaxBackoffBuffer)

RecoverScrollPass == account_answers /\ ScrollPass

RecoverCycleReturn == account_answers /\ CycleReturn

\* A cycle of the primary account ends in PageLoadError while the account is
\* rate-limited; a cycle of the backup account can end so at any time.
RecoverPageLoadError ==
    /\ using_backup_account \/ primary_rate_limited
    /\ CyclePageLoadError(MaxBackoffFailures)

NextRecover ==
    \/ PrimaryRateLimited
    \/ PrimaryRecovers
    \/ BeginCyclePrimary
    \/ BeginCycleBackup
    \/ RecoverXhrResponse
    \/ RecoverScrollPass
    \/ RecoverCycleReturn
    \/ RecoverPageLoadError

\* The sleep at the end of a cycle ends, and a cycle whose account gets its
\* pages runs to its end.
SpecRecover ==
    /\ InitRecover /\ [][NextRecover]_vars
    /\ WF_vars(BeginCyclePrimary \/ BeginCycleBackup)
    /\ WF_vars(RecoverScrollPass)
    /\ WF_vars(RecoverCycleReturn)

\* C29 as stated: when the primary account has recovered for good, a monitor
\* that switched to the backup account does not stay on it: it runs on the
\* primary account again.
C29_SwitchesBackToPrimary ==
    <>[](~primary_rate_limited) => []<>(~using_backup_account)

\* The monitor started with no stored watermark and no stored history.
InitFresh ==
    /\ mode = "monitor"
    /\ interval = BaseInterval
    /\ limit \in {None} \cup 1..MaxLimit
    /\ max_history = MaxHistory
    /\ max_scrolls = MaxScrolls
    /\ backup_email = TRUE
    /\ browser_param = TRUE
    /\ session_available \in BOOLEAN
    /\ LAST_ID_FILE = None
    /\ TWEETS_FILE = <<>>
    /\ TWEETS_FILE_complete = TRUE
    /\ textless \in SUBSET Ids
    /\ InitProcess
    /\ NoDb
    /\ NoFragment
    /\ NoSwitch
    /\ NoPool

NextFresh ==
    \/ XhrResponse(MaxId, MaxBuffer)
    \/ ScrollPass
    \/ BeginCyclePrimary
    \/ BeginCycleBackup
    \/ BeginCycleSwitch
    \/ CycleReturn
    \/ CycleUnexpectedError(MaxFailures)
    \/ CyclePageLoadError(MaxFailures)

SpecFresh == InitFresh /\ [][NextFresh]_vars

\* C31: in a monitor started with no watermark and no history, at the end of
\* every cycle that completed, every id of the history (in memory and in
\* tweets.json) is at most the watermark stored in last_tweet_id.txt.
C31_HistoryBelowWatermark ==
    (pc = "wait" /\ outcome = "ok") =>
        \A n \in IdsOf(all_tweets_ever_saved_json) \cup IdsOf(TWEETS_FILE) :
            LAST_ID_FILE # None /\ n <= LAST_ID_FILE

\* A completed cycle left a history of two items under a watermark that is
\* the id of the newer one.
C31_Witness ==
    /\ pc = "wait" /\ outcome = "ok"
    /\ Len(TWEETS_FILE) = 2
    /\ LAST_ID_FILE = TWEETS_FILE[1].id
    /\ newly_scraped_tweets # <<>>

\* The process is killed while the try block saves an advanced watermark:
\* before open(LAST_ID_FILE, "w"), between the open, which truncates the
\* file, and the write, or after the write.
CrashInSave ==
    /\ mode = "monitor" /\ pc = "scraped"
    /\ LET watermark == advance_watermark(last_tweet_id, overall_newest_id)
       IN /\ watermark # last_tweet_id
          /\ LAST_ID_FILE' \in {LAST_ID_FILE, Empty, watermark}
    /\ pc' = "crashed"
    /\ outcome' = "crashed"
    /\ UNCHANGED <<switching, config, TWEETS_FILE, TWEETS_FILE_complete, monitor,
                   scrape_locals, held, shutdown, db, save, extract, surfaced,
                   duplicates, ever_merged, history_before, failed_in_a_row,
                   timeouts, handler_switch, pool>>

\* The monitor is started again: it loads the watermark and the history from
\* the two files.
Restart ==
    /\ mode = "monitor" /\ pc = "crashed"
    /\ last_tweet_id' = LAST_ID_FILE
    /\ all_tweets_ever_saved_json' = Take(TWEETS_FILE, max_history)
    /\ consecutive_error_count' = 0
    /\ current_wait_time' = interval
    /\ using_backup_account' = FALSE
    /\ browser_monitor_backup' = FALSE
    /\ newly_scraped_tweets' = <<>>
    /\ pc' = "wait"
    /\ xhr_calls_buffer' = <<>>
    /\ scrape_last_tweet_id' = None
    /\ scrape_max_scrolls' = 0
    /\ i' = 0
    /\ seen_ids' = {}
    /\ all_new_tweets_metadata' = <<>>
    /\ overall_newest_id' = None
    /\ page' = "none"
    /\ playwright_instance_local' = "none"
    /\ browser_to_use' = "none"
    /\ outcome' = "none"
    /\ surfaced' = {}
    /\ duplicates' = {}
    /\ ever_merged' = IdsOf(TWEETS_FILE)
    /\ history_before' = all_tweets_ever_saved_json'
    /\ failed_in_a_row' = 0
    /\ timeouts_in_a_row' = 0
    /\ timeouts_before' = 0
    /\ handler_switch' = "none"
    /\ UNCHANGED <<switching, config, files, session_available, shutdown, db, save,
                   extract, pool>>

\* The monitor started with no stored watermark and no stored history, a
\* usable primary session and no limit.
InitRestart ==
    /\ mode = "monitor"
    /\ interval = BaseInterval
    /\ limit = None
    /\ max_history = MaxHistory
    /\ max_scrolls = MaxScrolls
    /\ backup_email = TRUE
    /\ browser_param = TRUE
    /\ session_available = TRUE
    /\ LAST_ID_FILE = None
    /\ TWEETS_FILE = <<>>
    /\ TWEETS_FILE_complete = TRUE
    /\ textless \in SUBSET Ids
    /\ InitProcess
    /\ NoDb
    /\ NoFragment
    /\ NoSwitch
    /\ NoPool

NextRestart ==
    \/ XhrResponse(MaxId, MaxBackoffBuffer)
    \/ ScrollPass
    \/ BeginCyclePrimary
    \/ CycleReturn
    \/ CrashInSave
    \/ Restart

SpecRestart == InitRestart /\ [][NextRestart]_vars

\* C32 as stated: a crash during save_last_tweet_id leaves in the file the
\* previous watermark, the new one or nothing that loads as other than None;
\* the restarted monitor loads that value; and a pass that is handed a
\* fragment with text whose id it has not seen and that is above the loaded
\* watermark (any id when the watermark is no id) extracts an item.
C32_RestartKeepsExtracting ==
    [][/\ pc' = "crashed" =>
            LAST_ID_FILE' \in {None, LAST_ID_FILE,
                               advance_watermark(last_tweet_id, overall_newest_id)}
       /\ (pc = "crashed" /\ pc' = "wait") => last_tweet_id' = LAST_ID_FILE
       /\ (PassStep /\ \E k \in 1..Len(xhr_calls_buffer) :
                         /\ xhr_calls_buffer[k].rest_id \notin seen_ids \cup {None}
                         /\ xhr_calls_buffer[k].full_text # ""
                         /\ \/ scrape_last_tweet_id \notin Ids
                            \/ xhr_calls_buffer[k].rest_id > scrape_last_tweet_id)
            => all_new_tweets_metadata' # all_new_tweets_metadata]_vars

\* C33 as stated: a monitor cycle that runs to its end without raising,
\* items or no items, primary or backup account, leaves the counter at 0 and
\* the wait at the base interval, so that the counter is the number of failed
\* cycles since that cycle.
C33_CompletedCycleResets ==
    [][(mode = "monitor" /\ outcome = "running" /\ outcome' = "ok") =>
           /\ consecutive_error_count' = 0
           /\ current_wait_time' = interval
           /\ failed_in_a_row' = consecutive_error_count']_vars

\* The values of --interval explored by SpecInterval: the default, the cap
\* of the backoff and twice the cap.
Intervals == {BaseInterval, MaxWait, 2 * MaxWait}

\* The monitor started on an empty state directory with any of these
\* intervals.
InitInterval ==
    /\ mode = "monitor"
    /\ interval \in Intervals
    /\ limit = None
    /\ max_history = MaxHistory
    /\ max_scrolls = MaxScrolls
    /\ backup_email \in BOOLEAN
    /\ browser_param = TRUE
    /\ session_available \in BOOLEAN
    /\ LAST_ID_FILE = None
    /\ TWEETS_FILE = <<>>
    /\ TWEETS_FILE_complete = TRUE
    /\ textless \in SUBSET (1..MaxBackoffId)
    /\ InitProcess
    /\ NoDb
    /\ NoFragment
    /\ NoSwitch
    /\ NoPool

SpecInterval == InitInterval /\ [][NextBackoff]_vars

\* C34 as stated: after a cycle that failed, the wait before the next cycle
\* is at least the configured interval, whatever the interval.
C34_BackoffNotBelowInterval ==
    (mode = "monitor" /\ outcome \in {"PageLoadError", "Exception"}) =>
        current_wait_time >= interval

\* The monitor started on an empty state directory with a usable primary
\* session and an open database connection.
InitDb ==
    /\ mode = "monitor"
    /\ interval = BaseInterval
    /\ limit = None
    /\ max_history = MaxHistory
    /\ max_scrolls = MaxScrolls
    /\ backup_email = FALSE
    /\ browser_param = TRUE
    /\ session_available = TRUE
    /\ LAST_ID_FILE = None
    /\ TWEETS_FILE = <<>>
    /\ TWEETS_FILE_complete = TRUE
    /\ textless \in SUBSET Ids
    /\ InitProcess
    /\ db_conn = "open"
    /\ saved_to_db_count = 0
    /\ hook = "not called"
    /\ save_pc = "idle"
    /\ save_index = 0
    /\ retries = 0
    /\ db_failures = 0
    /\ NoFragment
    /\ NoSwitch
    /\ NoPool

NextDb ==
    \/ XhrResponse(MaxId, MaxBackoffBuffer)
    \/ ScrollPass
    \/ BeginCyclePrimary
    \/ CycleReturn
    \/ CyclePageLoadError(MaxFailures)

SpecDb == InitDb /\ [][NextDb]_vars

\* C35 as stated: in a monitor started with a database connection, every
\* cycle that runs to its end with new items still holds a connection when
\* it comes to saving them, so that it calls save_tweet_to_db for them,
\* whatever happened to the saves of earlier cycles.
C35_SaveAttemptedEveryCycle ==
    [][(outcome = "running" /\ outcome' = "ok"
          /\ newly_scraped_tweets' # <<>>) => db_conn # "none"]_vars

\* C36 as stated: every attempt of scrape_tweets on the account that
\* scrape_with_rotation selected, whether it returns tweets, returns nothing
\* or raises, sets that account's last_used to the time of the attempt.
C36_AttemptUpdatesLastUsed ==
    [][(/\ pool_pc = "selected" /\ pool_pc' = "idle"
        /\ is_available(accounts[best_account], now)) =>
           accounts'[best_account].last_used = now]_vars

\* C37: whenever the monitor is marked as using the backup account, at the
\* start of a cycle and during it, it holds a backup browser and context (the
\* last ones switch_to_backup_account returned), so the cycle takes the backup
\* branch and not the no-session switch branch.
C37_BackupMarkedImpliesBrowser ==
    (mode = "monitor" /\ using_backup_account) =>
        /\ browser_monitor_backup
        /\ ~(ENABLED BeginCycleSwitch)

\* A cycle is about to start on the backup account after the handler has
\* reinitialised the backup browser.
C37_Witness ==
    /\ pc = "wait"
    /\ using_backup_account /\ browser_monitor_backup
    /\ handler_switch = "reset"

\* What is unchanged by a step of switch_to_backup_account.
SwitchFrame ==
    UNCHANGED <<config, files, monitor, scrape, held, shutdown, db, save,
                extract, ghost, pool>>

\* switch_to_backup_account up to chromium.launch: without the backup
\* credentials it returns (None, None) at once; a launch that raises is
\* caught and (None, None) is returned; else the browser is open.
SwitchLaunch ==
    /\ mode = "call" /\ switch_pc = "idle"
    /\ switch_calls < MaxSwitchCalls
    /\ switch_calls' = switch_calls + 1
    /\ IF ~backup_email
       THEN /\ browser_backup' = "none"
            /\ switch_pc' = "idle"
       ELSE \E launched \in BOOLEAN :
              /\ browser_backup' = IF launched THEN "open" ELSE "none"
              /\ switch_pc' = IF launched THEN "launched" ELSE "idle"
    /\ UNCHANGED unreleased
    /\ SwitchFrame

\* load_cookies loads the stored backup session, or auto_login_backup_account
\* succeeds: the browser and its context are returned.
SwitchReturnsBrowser ==
    /\ switch_pc = "launched"
    /\ browser_backup' = "returned"
    /\ switch_pc' = "idle"
    /\ UNCHANGED <<switch_calls, unreleased>>
    /\ SwitchFrame

\* No stored session and auto_login_backup_account returns False: the browser
\* is closed and (None, None) returned.
SwitchLoginFailed ==
    /\ switch_pc = "launched"
    /\ browser_backup' = "closed"
    /\ switch_pc' = "idle"
    /\ UNCHANGED <<switch_calls, unreleased>>
    /\ SwitchFrame

\* new_context, add_init_script, load_cookies or auto_login_backup_account
\* raises: "except Exception" returns (None, None); the browser stays open.
SwitchRaises ==
    /\ switch_pc = "launched"
    /\ browser_backup' = "open"
    /\ unreleased' = unreleased + 1
    /\ switch_pc' = "idle"
    /\ UNCHANGED switch_calls
    /\ SwitchFrame

\* switch_to_backup_account called again and again, as the monitor does in
\* every cycle without a session, with or without backup credentials.
InitSwitch ==
    /\ mode = "call"
    /\ interval = BaseInterval
    /\ limit = None
    /\ max_history = MaxHistory
    /\ max_scrolls = MaxScrolls
    /\ backup_email \in BOOLEAN
    /\ browser_param = TRUE
    /\ session_available = FALSE
    /\ TWEETS_FILE = <<>>
    /\ LAST_ID_FILE = None
    /\ TWEETS_FILE_complete = TRUE
    /\ textless = {}
    /\ InitProcess
    /\ NoDb
    /\ NoFragment
    /\ NoSwitch
    /\ NoPool

NextSwitch ==
    \/ SwitchLaunch
    \/ SwitchReturnsBrowser
    \/ SwitchLoginFailed
    \/ SwitchRaises

SpecSwitch == InitSwitch /\ [][NextSwitch]_vars

\* C38 as stated: when switch_to_backup_account has returned, the browser
\* it launched has been returned to the caller or closed, so no call leaves
\* an open browser behind, however many calls fail.
C38_LaunchedReturnedOrClosed ==
    switch_pc = "idle" =>
        /\ browser_backup \in {"none", "returned", "closed"}
        /\ unreleased = 0

\* C39 as stated: when TwitterAccount.scrape_tweets has returned, with
\* tweets, with none or after an exception, the page it opened is closed.
C39_PoolPageClosed == pool_pc = "idle" => pool_page # "open"
====
